---------------------------- MODULE Spec2Model ----------------------------
(***************************************************************************)
(* Model of the usage-log pipeline of the dashboard: the record extractor  *)
(* (UsageProcessor::process_line), the cost calculator, the per-file scan  *)
(* (process_file), the loader (find_jsonl_files, process_all_files) and    *)
(* the aggregator (UsageAggregator: filter_by_time_range and the views of  *)
(* calculate_usage_stats).                                                 *)
(*                                                                         *)
(* Strings whose contents the code inspects (message.id, requestId, the    *)
(* model id) are sequences of one-character strings, so that format! and   *)
(* str::contains are computed, not assumed.                                *)
(***************************************************************************)
EXTENDS Integers, Sequences, FiniteSets, TLC

VARIABLES
    line,            \* SpecLine: the raw line handed to process_line
    ret,             \* SpecLine: what process_line returned for it
    session_id,      \* process_file: session id taken from the file path
    local_dedup,     \* process_file: HashSet scoped to the current file
    global_dedup,    \* process_all_files: HashSet scoped to the whole load
    entries,         \* process_file: records collected for the current file
    pc,              \* where process_all_files stands
    walked,          \* find_jsonl_files: directory entries visited so far
    files,           \* find_jsonl_files: Vec<PathBuf> of the .jsonl paths
    nlines,          \* lines the load has consumed so far, over all files
    all_entries,     \* process_all_files: records of the files done so far
    result,          \* what process_all_files returned: "", "Ok" or "Err"
    good,            \* history: <<pair, file>> of every line read that on its
                     \* own yields a record and carries both ids
    kept,            \* history: records emitted per (message.id, requestId)
    content,         \* SpecFile: the lines of the file process_file reads
    pass_counts,     \* SpecFile: records returned by each finished call
    now,             \* filter_by_time_range: what Utc::now() returned
    time_range,      \* the TimeRange the record list was last filtered by
    filtered,        \* what filter_by_time_range returned
    stats,           \* what calculate_usage_stats returned for `filtered`
    loads,           \* SpecOrder: what each load of the same files returned
    first_seen,      \* history: per composite key, the first line read that
                     \* is valid, has usage and carries the key, its file,
                     \* and whether every line read with the key was such
    kept_by_key,     \* history: per composite key, the records emitted
    active_tab,      \* RootView.active_tab
    analytics_data,  \* RootView.analytics_data
    full_analytics_data, \* RootView.full_analytics_data
    is_loading,      \* RootView.is_loading
    current_time_range, \* RootView.current_time_range
    loading_state,   \* RootView.loading_state
    served,          \* what get_analytics_data last returned from
    rendered,        \* how the last render of the active tab ended
    in_path,         \* the path a path-formatting function is called with
    in_max_length,   \* truncate_project_path: its max_length argument
    out              \* what the path-formatting function returned

\* The variables of the aggregator and of the repeated load.
viewvars == <<now, time_range, filtered, stats, loads>>

\* The history of the load per composite key.
histvars == <<first_seen, kept_by_key>>

\* The fields of RootView and what its accessors and renderers gave.
rootvars ==
    <<active_tab, analytics_data, full_analytics_data, is_loading,
      current_time_range, loading_state, served, rendered>>

\* A call of extract_project_name or truncate_project_path.
callvars == <<in_path, in_max_length, out>>

(***************************************************************************)
(* Bounds of the model.                                                    *)
(***************************************************************************)
MaxTime == 2

MaxFiles == 2

MaxLines == 3

MaxEntries == 2

(***************************************************************************)
(* serde_json values, as far as the extractor looks at them.               *)
(***************************************************************************)
\* Option<T>: None, Some(v)
None == [some |-> FALSE, v |-> <<>>]

Some(x) == [some |-> TRUE, v |-> x]

\* A field that the code reads with as_str(): missing, present with another
\* JSON type, or a JSON string.
Absent == [k |-> "absent", s |-> <<>>]

NonStr == [k |-> "other", s |-> <<>>]

Str(x) == [k |-> "str", s |-> x]

as_str(f) == IF f.k = "str" THEN Some(f.s) ELSE None

\* A field that the code reads with as_u64(): missing, present but not a
\* non-negative integer, or a u64 held as its two 32-bit halves
\* (value = hi * 2^32 + lo).
NumAbsent == [k |-> "absent", hi |-> 0, lo |-> 0]

NonU64 == [k |-> "other", hi |-> 0, lo |-> 0]

U64(h, l) == [k |-> "u64", hi |-> h, lo |-> l]

as_u64(f) == IF f.k = "u64" THEN Some([hi |-> f.hi, lo |-> f.lo]) ELSE None

\* `x as u32` of a u64: the low 32 bits.
as_u32(x) == x.lo

unwrap_or_zero(o) == IF o.some THEN o.v ELSE [hi |-> 0, lo |-> 0]

\* costUSD, read with as_f64(): missing, not a number, or a number (in cost
\* units, see CostUnitsPerUSD).
CostAbsent == [k |-> "absent", v |-> 0]

CostNonNum == [k |-> "other", v |-> 0]

CostNum(x) == [k |-> "num", v |-> x]

as_f64(f) == IF f.k = "num" THEN Some(f.v) ELSE None

\* timestamp: missing, not a string, a string that is not RFC 3339, or an
\* RFC 3339 date-time with wall-clock time `wall` at UTC offset `off`.
TsAbsent == [k |-> "absent", wall |-> 0, off |-> 0]

TsNonStr == [k |-> "other", wall |-> 0, off |-> 0]

TsBad == [k |-> "bad", wall |-> 0, off |-> 0]

TsOk(w, o) == [k |-> "rfc3339", wall |-> w, off |-> o]

(***************************************************************************)
(* Strings of the model.                                                   *)
(***************************************************************************)
Colon == <<":">>

opus_4 == <<"o", "p", "u", "s", "-", "4">>

claude_opus_4 == <<"c", "l", "a", "u", "d", "e", "-">> \o opus_4

sonnet_4 == <<"s", "o", "n", "n", "e", "t", "-", "4">>

claude_sonnet_4 == <<"c", "l", "a", "u", "d", "e", "-">> \o sonnet_4

unknown == <<"u", "n", "k", "n", "o", "w", "n">>

\* str::contains
contains(s, pat) ==
    \E i \in 0..(Len(s) - Len(pat)) : SubSeq(s, i + 1, i + Len(pat)) = pat

(***************************************************************************)
(* CostCalculator (calculator.rs).  Prices are per million tokens; one     *)
(* cost unit is 0.05 USD per million tokens, so that every rate and every  *)
(* computed cost is an exact integer.                                      *)
(***************************************************************************)
PerMillion == 1000000

CostUnitsPerUSD == 20 * PerMillion

Opus4Pricing ==
    [input_price |-> 300, output_price |-> 1500,
     cache_read_price |-> 30, cache_write_price |-> 375]

Sonnet4Pricing ==
    [input_price |-> 60, output_price |-> 300,
     cache_read_price |-> 6, cache_write_price |-> 75]

ZeroPricing ==
    [input_price |-> 0, output_price |-> 0,
     cache_read_price |-> 0, cache_write_price |-> 0]

\* The two tests in the other order.
get_model_pricing_sonnet_first(model) ==
    IF contains(model, sonnet_4) \/ contains(model, claude_sonnet_4)
    THEN Sonnet4Pricing
    ELSE IF contains(model, opus_4) \/ contains(model, claude_opus_4)
    THEN Opus4Pricing
    ELSE ZeroPricing

get_model_pricing(model) ==
    IF contains(model, opus_4) \/ contains(model, claude_opus_4)
    THEN Opus4Pricing
    ELSE IF contains(model, sonnet_4) \/ contains(model, claude_sonnet_4)
    THEN Sonnet4Pricing
    ELSE ZeroPricing

calculate_cost(model, input_tokens, output_tokens, cache_read_tokens, cache_creation_tokens) ==
    LET pricing == get_model_pricing(model)
    IN  input_tokens * pricing.input_price
        + output_tokens * pricing.output_price
        + cache_read_tokens * pricing.cache_read_price
        + cache_creation_tokens * pricing.cache_write_price

Opus_4 == <<"O", "p", "u", "s", " ", "4">>

Sonnet_4 == <<"S", "o", "n", "n", "e", "t", " ", "4">>

\* The Sonnet-4 test comes first.
get_model_display_name_sonnet_first(model) ==
    IF contains(model, sonnet_4) \/ contains(model, claude_sonnet_4)
    THEN Sonnet_4
    ELSE IF contains(model, opus_4) \/ contains(model, claude_opus_4)
    THEN Opus_4
    ELSE model

\* calculator.rs 58-67
get_model_display_name(model) ==
    IF contains(model, opus_4) \/ contains(model, claude_opus_4)
    THEN Opus_4
    ELSE IF contains(model, sonnet_4) \/ contains(model, claude_sonnet_4)
    THEN Sonnet_4
    ELSE model

(***************************************************************************)
(* UsageProcessor::extract_timestamp and process_line (processor.rs).      *)
(***************************************************************************)
\* Result<DateTime<Utc>>: the instant is the wall-clock time moved to UTC.
extract_timestamp(json_value) ==
    IF json_value.timestamp.k \in {"absent", "other"}
    THEN [ok |-> FALSE, v |-> 0, err |-> "Missing or invalid timestamp"]
    ELSE IF json_value.timestamp.k = "bad"
    THEN [ok |-> FALSE, v |-> 0, err |-> "Failed to parse timestamp"]
    ELSE [ok |-> TRUE,
          v |-> json_value.timestamp.wall - json_value.timestamp.off,
          err |-> ""]

\* Value::get on the message value: None unless it is an object.
message_get_usage(message) ==
    IF message.k = "object" /\ message.usage.k # "absent"
    THEN Some(message.usage) ELSE None

message_get_str(message, field) ==
    IF message.k = "object" THEN as_str(message[field]) ELSE None

usage_get_u64(usage, field) ==
    IF usage.k = "object" THEN as_u64(usage[field]) ELSE None

NoEntry ==
    [timestamp |-> 0, model |-> <<>>, project_path |-> None,
     session_id |-> None, request_id |-> None,
     input_tokens |-> 0, output_tokens |-> 0,
     cache_read_tokens |-> 0, cache_creation_tokens |-> 0, cost |-> 0]

\* The three outcomes of process_line, with the two sets as it leaves them.
LineErr(e, local, global) ==
    [outcome |-> "Err", err |-> e, entry |-> NoEntry,
     local |-> local, global |-> global]

LineNone(local, global) ==
    [outcome |-> "None", err |-> "", entry |-> NoEntry,
     local |-> local, global |-> global]

LineSome(e, local, global) ==
    [outcome |-> "Some", err |-> "", entry |-> e,
     local |-> local, global |-> global]

\* The key is recorded in the file's set only.
Dedup_local_only(message, json_value, local, global) ==
    LET message_id == message_get_str(message, "id")
        request_id == as_str(json_value.requestId)
    IN  IF message_id.some /\ request_id.some
        THEN LET dedup_key == message_id.v \o Colon \o request_id.v
             IN  IF dedup_key \in local \/ dedup_key \in global
                 THEN [dup |-> TRUE, local |-> local, global |-> global]
                 ELSE [dup |-> FALSE,
                       local |-> local \cup {dedup_key},
                       global |-> global]
        ELSE [dup |-> FALSE, local |-> local, global |-> global]

\* A missing half of the pair is taken as the empty string.
Dedup_key_always(message, json_value, local, global) ==
    LET message_id == message_get_str(message, "id")
        request_id == as_str(json_value.requestId)
        dedup_key == message_id.v \o Colon \o request_id.v
    IN  IF dedup_key \in local \/ dedup_key \in global
        THEN [dup |-> TRUE, local |-> local, global |-> global]
        ELSE [dup |-> FALSE,
              local |-> local \cup {dedup_key},
              global |-> global \cup {dedup_key}]

\* processor.rs 149-164: the identifiers and the two sets.  dup is the early
\* return of line 159.
Dedup(message, json_value, local, global) ==
    LET message_id == message_get_str(message, "id")
        request_id == as_str(json_value.requestId)
    IN  IF message_id.some /\ request_id.some
        THEN LET dedup_key == message_id.v \o Colon \o request_id.v
             IN  IF dedup_key \in local \/ dedup_key \in global
                 THEN [dup |-> TRUE, local |-> local, global |-> global]
                 ELSE [dup |-> FALSE,
                       local |-> local \cup {dedup_key},
                       global |-> global \cup {dedup_key}]
        ELSE [dup |-> FALSE, local |-> local, global |-> global]

\* The filter left out.
zero_tokens_never(input_tokens, output_tokens, cache_read_tokens, cache_creation_tokens) ==
    FALSE

\* processor.rs 173: the zero-token filter
zero_tokens(input_tokens, output_tokens, cache_read_tokens, cache_creation_tokens) ==
    /\ input_tokens = 0
    /\ output_tokens = 0
    /\ cache_read_tokens = 0
    /\ cache_creation_tokens = 0

\* processor.rs 166-205: token counts, zero filter, model, cwd, cost.
Extract(timestamp, message, usage, json_value, sid, local, global) ==
    LET input_tokens ==
            as_u32(unwrap_or_zero(usage_get_u64(usage, "input_tokens")))
        output_tokens ==
            as_u32(unwrap_or_zero(usage_get_u64(usage, "output_tokens")))
        cache_read_tokens ==
            as_u32(unwrap_or_zero(
                usage_get_u64(usage, "cache_read_input_tokens")))
        cache_creation_tokens ==
            as_u32(unwrap_or_zero(
                usage_get_u64(usage, "cache_creation_input_tokens")))
        model_opt == message_get_str(message, "model")
        model == IF model_opt.some THEN model_opt.v ELSE unknown
        costUSD == as_f64(json_value.costUSD)
        cost == IF costUSD.some THEN costUSD.v
                ELSE calculate_cost(model, input_tokens, output_tokens,
                                    cache_read_tokens, cache_creation_tokens)
    IN  IF zero_tokens(input_tokens, output_tokens,
                       cache_read_tokens, cache_creation_tokens)
        THEN LineNone(local, global)
        ELSE LineSome(
                [timestamp |-> timestamp,
                 model |-> model,
                 project_path |-> as_str(json_value.cwd),
                 session_id |-> sid,
                 request_id |-> as_str(json_value.requestId),
                 input_tokens |-> input_tokens,
                 output_tokens |-> output_tokens,
                 cache_read_tokens |-> cache_read_tokens,
                 cache_creation_tokens |-> cache_creation_tokens,
                 cost |-> cost],
                local, global)

\* The identifiers are recorded before the timestamp is looked at.
process_line_dedup_first(ln, sid, local, global) ==
    IF ~ln.json
    THEN LineErr("Failed to parse JSON", local, global)
    ELSE LET d == Dedup(ln.message, ln, local, global)
             ts == extract_timestamp(ln)
         IN  IF d.dup
             THEN LineNone(local, global)
             ELSE IF ~ts.ok
             THEN LineErr(ts.err, d.local, d.global)
             ELSE IF ln.message.k = "absent"
             THEN LineErr("Missing message field", d.local, d.global)
             ELSE LET usage == message_get_usage(ln.message)
                  IN  IF ~usage.some \/ usage.v.k = "null"
                      THEN LineNone(d.local, d.global)
                      ELSE Extract(ts.v, ln.message, usage.v, ln,
                                   sid, d.local, d.global)

\* A missing usage is reported like a missing message.
process_line_usage_required(ln, sid, local, global) ==
    IF ~ln.json
    THEN LineErr("Failed to parse JSON", local, global)
    ELSE LET ts == extract_timestamp(ln)
         IN  IF ~ts.ok
             THEN LineErr(ts.err, local, global)
             ELSE IF ln.message.k = "absent"
             THEN LineErr("Missing message field", local, global)
             ELSE LET usage == message_get_usage(ln.message)
                  IN  IF ~usage.some
                      THEN LineErr("Missing usage field", local, global)
                      ELSE IF usage.v.k = "null"
                      THEN LineNone(local, global)
                      ELSE LET d == Dedup(ln.message, ln, local, global)
                           IN  IF d.dup
                               THEN LineNone(local, global)
                               ELSE Extract(ts.v, ln.message, usage.v, ln,
                                            sid, d.local, d.global)

process_line(ln, sid, local, global) ==
    IF ~ln.json
    THEN LineErr("Failed to parse JSON", local, global)
    ELSE LET ts == extract_timestamp(ln)
         IN  IF ~ts.ok
             THEN LineErr(ts.err, local, global)
             ELSE IF ln.message.k = "absent"
             THEN LineErr("Missing message field", local, global)
             ELSE LET usage == message_get_usage(ln.message)
                  IN  IF ~usage.some \/ usage.v.k = "null"
                      THEN LineNone(local, global)
                      ELSE LET d == Dedup(ln.message, ln, local, global)
                           IN  IF d.dup
                               THEN LineNone(local, global)
                               ELSE Extract(ts.v, ln.message, usage.v, ln,
                                            sid, d.local, d.global)

(***************************************************************************)
(* Lines of the model.  A line is the serde_json value it parses to, or     *)
(* json = FALSE when serde_json::from_str fails.                           *)
(***************************************************************************)
UsageAbsent ==
    [k |-> "absent", input_tokens |-> NumAbsent, output_tokens |-> NumAbsent,
     cache_read_input_tokens |-> NumAbsent,
     cache_creation_input_tokens |-> NumAbsent]

UsageNull == [UsageAbsent EXCEPT !.k = "null"]

\* usage present, not null and not an object (a number, a string, an array)
UsageOther == [UsageAbsent EXCEPT !.k = "other"]

Usage(i, o, cr, cc) ==
    [k |-> "object", input_tokens |-> i, output_tokens |-> o,
     cache_read_input_tokens |-> cr, cache_creation_input_tokens |-> cc]

MsgAbsent ==
    [k |-> "absent", id |-> Absent, model |-> Absent, usage |-> UsageAbsent]

\* message present but not an object (null, a string, ...)
MsgOther == [MsgAbsent EXCEPT !.k = "other"]

Msg(id, model, usage) ==
    [k |-> "object", id |-> id, model |-> model, usage |-> usage]

Garbage ==
    [json |-> FALSE, timestamp |-> TsAbsent, message |-> MsgAbsent,
     requestId |-> Absent, cwd |-> Absent, costUSD |-> CostAbsent]

Json(ts, msg, req, cwd, cost) ==
    [json |-> TRUE, timestamp |-> ts, message |-> msg,
     requestId |-> req, cwd |-> cwd, costUSD |-> cost]

Timestamps ==
    {TsAbsent, TsNonStr, TsBad}
        \cup {TsOk(w, o) : w \in 1..MaxTime, o \in 0..1}

MessageIds == {Absent, NonStr, Str(<<"a">>), Str(<<"a", ":", "b">>)}

RequestIds == {Absent, NonStr, Str(<<"c">>), Str(<<"b", ":", "c">>)}

\* Every composite key the ids above can form.
Keys ==
    {m.s \o Colon \o r.s :
        m \in {x \in MessageIds : x.k = "str"},
        r \in {x \in RequestIds : x.k = "str"}}

gpt_5_experimental ==
    <<"g", "p", "t", "-", "5", "-", "e", "x", "p", "e", "r", "i", "m", "e",
      "n", "t", "a", "l">>

ModelNames ==
    {<<>>, opus_4, claude_opus_4 \o <<"-", "x">>,
     claude_sonnet_4 \o <<"-", "x">>, sonnet_4 \o <<"-">> \o opus_4,
     <<"o", "p", "u", "s", "-", "3">>, <<"s", "o", "n", "n", "e", "t">>,
     gpt_5_experimental}

Models == {Absent, NonStr} \cup {Str(m) : m \in ModelNames}

Cwds == {Absent, NonStr, Str(<<"/", "p">>)}

Costs == {CostAbsent, CostNonNum, CostNum(7)}

TokenValues ==
    {NumAbsent, NonU64, U64(0, 0), U64(0, 1), U64(1, 0), U64(0, PerMillion)}

SmallTokenValues == {NumAbsent, U64(0, 0), U64(0, 3)}

Usages ==
    {UsageAbsent, UsageNull, UsageOther}
        \cup {Usage(i, o, NumAbsent, NumAbsent) :
                i \in TokenValues,
                o \in {NumAbsent, U64(0, 2), U64(0, PerMillion)}}
        \cup {Usage(U64(0, 0), NumAbsent, cr, cc) :
                cr \in SmallTokenValues, cc \in SmallTokenValues}

PlainUsage == Usage(U64(0, 1), NumAbsent, NumAbsent, NumAbsent)

\* Lines that differ in structure and identity: what is missing, what the
\* usage holds, which ids the line carries.
StructureLines ==
    {Garbage}
        \cup {Json(ts, MsgAbsent, r, Absent, CostAbsent) :
                ts \in Timestamps, r \in RequestIds}
        \cup {Json(ts, MsgOther, r, Absent, CostAbsent) :
                ts \in Timestamps, r \in RequestIds}
        \cup {Json(ts, Msg(m, Absent, u), r, Absent, CostAbsent) :
                ts \in Timestamps, m \in MessageIds, r \in RequestIds,
                u \in {UsageAbsent, UsageNull, UsageOther, PlainUsage,
                       Usage(U64(0, 0), NonU64, NumAbsent, U64(1, 0))}}

\* Lines that differ in what is priced: model, token counts, costUSD, cwd.
PricedLines ==
    {Json(TsOk(1, 0), Msg(Absent, mo, u), Absent, cwd, cost) :
        mo \in Models, u \in Usages, cwd \in Cwds, cost \in Costs}

Lines == StructureLines \cup PricedLines

Sessions == {None, Some(<<"s", "1">>)}

(***************************************************************************)
(* process_file, lines 109-122: the body of the loop over content.lines()  *)
(* for one non-blank line.  The Err arm writes the "Warning: Line n"       *)
(* message and continues; the None arm continues silently.                 *)
(***************************************************************************)
FileLine(ln) ==
    LET r == process_line(ln, session_id, local_dedup, global_dedup)
    IN  /\ local_dedup' = r.local
        /\ global_dedup' = r.global
        /\ entries' = IF r.outcome = "Some"
                      THEN Append(entries, r.entry) ELSE entries

(***************************************************************************)
(* Vec::sort_by with a comparator that orders by the field `key`, largest  *)
(* first.  The sort is stable: equal keys keep their order.                *)
(***************************************************************************)
InsertDesc(sorted, x, key) ==
    LET n == Cardinality({j \in 1..Len(sorted) : sorted[j][key] >= x[key]})
    IN  SubSeq(sorted, 1, n) \o <<x>> \o SubSeq(sorted, n + 1, Len(sorted))

\* The list is left in the order it was built in.
SortDesc_keeps_order(seq, key) == seq

SortDesc(seq, key) ==
    LET f[i \in 0..Len(seq)] ==
            IF i = 0 THEN <<>> ELSE InsertDesc(f[i - 1], seq[i], key)
    IN  f[Len(seq)]

\* the sort key of find_jsonl_files: metadata().modified()
Modified == "mtime"

\* the sort key of process_all_files: the timestamp of the entry
Timestamp == "timestamp"

(***************************************************************************)
(* The loader: find_jsonl_files and process_all_files.                     *)
(***************************************************************************)
\* A discovered path is known by the name of its parent directory, from
\* which process_file derives the session id.
Dirs == {<<"s", "1">>, <<"s", "2">>}

\* What metadata().and_then(modified) gives the sort for a path: 0 is
\* UNIX_EPOCH, used when the metadata cannot be read.
ModifiedTimes == 0..1

\* The lines a log file of the loader model is made of.
ZeroUsage == Usage(U64(0, 0), U64(0, 0), U64(0, 0), U64(0, 0))

\* 2^32 input tokens: nonzero in the log, zero after `as u32`
WrappedUsage == Usage(U64(1, 0), NumAbsent, NumAbsent, NumAbsent)

LoadIds ==
    {<<Absent, Absent>>, <<Str(<<"a">>), Absent>>,
     <<Str(<<"a">>), Str(<<"b", ":", "c">>)>>,
     <<Str(<<"a", ":", "b">>), Str(<<"c">>)>>}

LoadLines ==
    {Garbage, Json(TsOk(1, 0), MsgAbsent, Absent, Absent, CostAbsent)}
        \cup {Json(ts, Msg(ids[1], Absent, u), ids[2], Absent, CostAbsent) :
                ts \in {TsAbsent} \cup {TsOk(w, 0) : w \in 1..MaxTime},
                ids \in LoadIds,
                u \in {UsageAbsent, ZeroUsage, WrappedUsage, PlainUsage}}

\* The (message.id, requestId) pair of a line that carries both as strings.
HasPair(ln) ==
    /\ ln.json
    /\ message_get_str(ln.message, "id").some
    /\ as_str(ln.requestId).some

PairOf(ln) == <<ln.message.id.s, ln.requestId.s>>

Pairs == {<<ids[1].s, ids[2].s>> : ids \in {x \in LoadIds : x[2].k = "str"}}

\* The composite key of a line that carries both ids, as line 155 builds it.
KeyOfLine(ln) == ln.message.id.s \o Colon \o ln.requestId.s

\* The usage fields process_line reads, lines 167-170.
UsageFields ==
    {"input_tokens", "output_tokens", "cache_read_input_tokens",
     "cache_creation_input_tokens"}

\* The line is valid (JSON, a timestamp that parses, a message) and its
\* usage holds a count that is a nonzero integer in the log.
ValidWithUsage(ln) ==
    /\ ln.json
    /\ extract_timestamp(ln).ok
    /\ ln.message.k = "object"
    /\ ln.message.usage.k = "object"
    /\ \E f \in UsageFields :
          /\ ln.message.usage[f].k = "u64"
          /\ ln.message.usage[f].hi + ln.message.usage[f].lo > 0

\* "The line on its own would yield a record": valid timestamp, message,
\* non-null usage, a nonzero token count.
YieldsAlone(ln) == process_line(ln, None, {}, {}).outcome = "Some"

\* find_jsonl_files, lines 40-47: one entry of the WalkDir iterator.
\* `entry?` returns the walk's error from find_jsonl_files, and
\* `self.find_jsonl_files()?` returns it from process_all_files.
WalkError ==
    /\ pc = "walk"
    /\ walked < MaxFiles
    /\ pc' = "returned"
    /\ result' = "Err"
    /\ walked' = 0
    /\ files' = <<>>
    /\ UNCHANGED <<line, ret, session_id, local_dedup, global_dedup, entries,
                   nlines, all_entries, good, kept, content, pass_counts>>
    /\ UNCHANGED viewvars
    /\ UNCHANGED <<histvars, rootvars, callvars>>

\* An entry whose extension is not "jsonl" (or that has none).
WalkOther ==
    /\ pc = "walk"
    /\ walked < MaxFiles
    /\ walked' = walked + 1
    /\ UNCHANGED <<line, ret, session_id, local_dedup, global_dedup, entries,
                   pc, files, nlines, all_entries, result, good, kept, content, pass_counts>>
    /\ UNCHANGED viewvars
    /\ UNCHANGED <<histvars, rootvars, callvars>>

WalkJsonl ==
    /\ pc = "walk"
    /\ walked < MaxFiles
    /\ \E dir \in Dirs : files' = Append(files, [dir |-> dir])
    /\ walked' = walked + 1
    /\ UNCHANGED <<line, ret, session_id, local_dedup, global_dedup, entries,
                   pc, nlines, all_entries, result, good, kept, content, pass_counts>>
    /\ UNCHANGED viewvars
    /\ UNCHANGED <<histvars, rootvars, callvars>>

\* find_jsonl_files, lines 49-59: the walk is over; the comparator reads
\* each path's modification time and the newest file comes first.
\* process_all_files, lines 64-68.
WalkDone ==
    /\ pc = "walk"
    /\ \E mt \in [1..Len(files) -> ModifiedTimes] :
          LET stamped ==
                [i \in 1..Len(files) |-> [path |-> files[i], mtime |-> mt[i]]]
              sorted == SortDesc(stamped, Modified)
          IN  files' = [i \in 1..Len(files) |-> sorted[i].path]
    /\ pc' = "files"
    /\ walked' = 0
    /\ all_entries' = <<>>
    /\ global_dedup' = {}
    /\ UNCHANGED <<line, ret, session_id, local_dedup, entries, nlines,
                   result, good, kept, content, pass_counts>>
    /\ UNCHANGED viewvars
    /\ UNCHANGED <<histvars, rootvars, callvars>>

\* process_file, lines 96-97 failing: read_to_string returns an error,
\* process_all_files (78-81) reports it and continues with the next file.
ReadFails ==
    /\ pc = "files"
    /\ files # <<>>
    /\ files' = Tail(files)
    /\ UNCHANGED <<line, ret, session_id, local_dedup, global_dedup, entries,
                   pc, walked, nlines, all_entries, result, good, kept, content, pass_counts>>
    /\ UNCHANGED viewvars
    /\ UNCHANGED <<histvars, rootvars, callvars>>

\* process_file, lines 96-107: the file is read, the per-file state is set up.
OpenFile ==
    /\ pc = "files"
    /\ files # <<>>
    /\ pc' = "lines"
    /\ entries' = <<>>
    /\ local_dedup' = {}
    /\ session_id' = Some(Head(files).dir)
    /\ UNCHANGED <<line, ret, global_dedup, walked, files, nlines,
                   all_entries, result, good, kept, content, pass_counts>>
    /\ UNCHANGED viewvars
    /\ UNCHANGED <<histvars, rootvars, callvars>>

\* process_file, lines 110-112: a blank line is passed over.
BlankLine ==
    /\ pc = "lines"
    /\ nlines < MaxLines
    /\ nlines' = nlines + 1
    /\ UNCHANGED <<line, ret, session_id, local_dedup, global_dedup, entries,
                   pc, walked, files, all_entries, result, good, kept, content, pass_counts>>
    /\ UNCHANGED viewvars
    /\ UNCHANGED <<histvars, rootvars, callvars>>

\* process_file, lines 114-121: the next non-blank line of the file.
LoadLine ==
    /\ pc = "lines"
    /\ nlines < MaxLines
    /\ \E ln \in LoadLines :
          /\ FileLine(ln)
          /\ good' = IF HasPair(ln) /\ YieldsAlone(ln)
                     THEN good \cup {<<PairOf(ln), Len(files)>>} ELSE good
          /\ kept' = IF HasPair(ln) /\ Len(entries') > Len(entries)
                     THEN [kept EXCEPT ![PairOf(ln)] = @ + 1] ELSE kept
          /\ first_seen' =
                IF ~HasPair(ln)
                THEN first_seen
                ELSE IF ~ValidWithUsage(ln)
                THEN [first_seen EXCEPT ![KeyOfLine(ln)].all_valid = FALSE]
                ELSE IF first_seen[KeyOfLine(ln)].first.some
                THEN first_seen
                ELSE [first_seen EXCEPT ![KeyOfLine(ln)].first =
                        Some([dir |-> session_id.v, ln |-> ln])]
          /\ kept_by_key' =
                IF HasPair(ln) /\ Len(entries') > Len(entries)
                THEN [kept_by_key EXCEPT ![KeyOfLine(ln)] =
                        Append(@, entries'[Len(entries')])]
                ELSE kept_by_key
    /\ nlines' = nlines + 1
    /\ UNCHANGED <<line, ret, session_id, pc, walked, files, all_entries,
                   result, content, pass_counts>>
    /\ UNCHANGED viewvars
    /\ UNCHANGED <<rootvars, callvars>>

\* process_file, line 124, and process_all_files, lines 74-77: the file's
\* records join the load's, the per-file state is dropped.
CloseFile ==
    /\ pc = "lines"
    /\ all_entries' = all_entries \o entries
    /\ files' = Tail(files)
    /\ pc' = "files"
    /\ entries' = <<>>
    /\ local_dedup' = {}
    /\ session_id' = None
    /\ UNCHANGED <<line, ret, global_dedup, walked, nlines, result, good,
                   kept, content, pass_counts>>
    /\ UNCHANGED viewvars
    /\ UNCHANGED <<histvars, rootvars, callvars>>

\* process_all_files, lines 85-89.
Finish ==
    /\ pc = "files"
    /\ files = <<>>
    /\ all_entries' = SortDesc(all_entries, Timestamp)
    /\ pc' = "returned"
    /\ result' = "Ok"
    /\ UNCHANGED <<line, ret, session_id, local_dedup, global_dedup, entries,
                   walked, files, nlines, good, kept, content, pass_counts>>
    /\ UNCHANGED viewvars
    /\ UNCHANGED <<histvars, rootvars, callvars>>

NoRet == [outcome |-> "", entry |-> NoEntry]

\* No line has been read yet.
NoHistory ==
    /\ first_seen = [k \in Keys |-> [first |-> None, all_valid |-> TRUE]]
    /\ kept_by_key = [k \in Keys |-> <<>>]

\* RootView as the struct literal of RootView::new sets it, root.rs
\* 178-188, with nothing served or rendered yet.
NoView ==
    /\ active_tab = "Overview"
    /\ analytics_data = None
    /\ full_analytics_data = None
    /\ is_loading = TRUE
    /\ current_time_range = "Last30Days"
    /\ loading_state = "LoadingInitial"
    /\ served = ""
    /\ rendered = ""

\* No path-formatting function has been called.
NoCall ==
    /\ in_path = <<>>
    /\ in_max_length = 0
    /\ out = None

Init ==
    /\ pc = "walk"
    /\ walked = 0
    /\ files = <<>>
    /\ nlines = 0
    /\ all_entries = <<>>
    /\ result = ""
    /\ global_dedup = {}
    /\ local_dedup = {}
    /\ entries = <<>>
    /\ session_id = None
    /\ line = Garbage
    /\ ret = NoRet
    /\ good = {}
    /\ kept = [p \in Pairs |-> 0]
    /\ content = <<>>
    /\ pass_counts = <<>>
    /\ now = 0
    /\ time_range = "AllTime"
    /\ filtered = <<>>
    /\ stats = None
    /\ loads = <<>>
    /\ NoHistory
    /\ NoView
    /\ NoCall

Next ==
    \/ WalkError
    \/ WalkOther
    \/ WalkJsonl
    \/ WalkDone
    \/ ReadFails
    \/ OpenFile
    \/ BlankLine
    \/ LoadLine
    \/ CloseFile
    \/ Finish

vars ==
    <<line, ret, session_id, local_dedup, global_dedup, entries, pc, walked,
      files, nlines, all_entries, result, good, kept, content, pass_counts,
      now, time_range, filtered, stats, loads, first_seen, kept_by_key,
      active_tab, analytics_data, full_analytics_data, is_loading,
      current_time_range, loading_state, served, rendered,
      in_path, in_max_length, out>>

Spec == Init /\ [][Next]_vars

(***************************************************************************)
(* SpecLine: one call of process_line from the loop of process_file, on    *)
(* any line, with any contents of the two sets.  The file-scoped set only  *)
(* ever receives keys together with the load-wide one.                     *)
(***************************************************************************)
LineInit ==
    /\ line \in Lines
    /\ session_id \in Sessions
    /\ global_dedup \in SUBSET Keys
    /\ local_dedup \in {{}, global_dedup}
    /\ entries = <<>>
    /\ ret = NoRet
    /\ pc = "lines"
    /\ walked = 0
    /\ files = <<>>
    /\ nlines = 0
    /\ all_entries = <<>>
    /\ result = ""
    /\ good = {}
    /\ kept = [p \in Pairs |-> 0]
    /\ content = <<>>
    /\ pass_counts = <<>>
    /\ now = 0
    /\ time_range = "AllTime"
    /\ filtered = <<>>
    /\ stats = None
    /\ loads = <<>>
    /\ NoHistory
    /\ NoView
    /\ NoCall

LineApply ==
    /\ ret = NoRet
    /\ FileLine(line)
    /\ LET r == process_line(line, session_id, local_dedup, global_dedup)
       IN  ret' = [outcome |-> r.outcome, entry |-> r.entry]
    /\ UNCHANGED <<line, session_id, pc, walked, files, nlines, all_entries,
                   result, good, kept, content, pass_counts>>
    /\ UNCHANGED viewvars
    /\ UNCHANGED <<histvars, rootvars, callvars>>

LineNext == LineApply

SpecLine == LineInit /\ [][LineNext]_vars

(***************************************************************************)
(* SpecFile: process_file called twice on the same file with the same      *)
(* load-wide set, as process_all_files does for two paths that lead to the *)
(* same content.  The set may already hold keys of earlier files.          *)
(***************************************************************************)
FileLines ==
    {\* recoverable per-line errors
     Garbage,
     Json(TsOk(1, 0), MsgAbsent, Absent, Absent, CostAbsent),
     Json(TsAbsent, Msg(Str(<<"a">>), Absent, PlainUsage),
          Str(<<"b", ":", "c">>), Absent, CostAbsent),
     Json(TsBad, Msg(Absent, Absent, PlainUsage), Absent, Absent, CostAbsent),
     \* silent skips
     Json(TsOk(1, 0), Msg(Str(<<"a">>), Absent, UsageAbsent),
          Str(<<"b", ":", "c">>), Absent, CostAbsent),
     Json(TsOk(1, 0), Msg(Str(<<"a">>), Absent, ZeroUsage),
          Str(<<"b", ":", "c">>), Absent, CostAbsent),
     \* lines that yield a record on their own, with and without a key
     Json(TsOk(2, 0), Msg(Str(<<"a">>), Absent, PlainUsage),
          Str(<<"b", ":", "c">>), Absent, CostAbsent),
     Json(TsOk(1, 0), Msg(Str(<<"a", ":", "b">>), Absent, PlainUsage),
          Str(<<"c">>), Absent, CostAbsent),
     Json(TsOk(2, 0), Msg(Absent, Absent, PlainUsage), Absent, Absent,
          CostAbsent),
     Json(TsOk(1, 0), Msg(Str(<<"a">>), Absent, PlainUsage), NonStr, Absent,
          CostAbsent)}

Contents == UNION {[1..n -> FileLines] : n \in 0..MaxLines}

FileInit ==
    /\ content \in Contents
    /\ global_dedup \in SUBSET {<<"a", ":", "b", ":", "c">>}
    /\ pass_counts = <<>>
    /\ pc = "files"
    /\ local_dedup = {}
    /\ entries = <<>>
    /\ session_id = None
    /\ nlines = 0
    /\ all_entries = <<>>
    /\ walked = 0
    /\ files = <<>>
    /\ result = ""
    /\ line = Garbage
    /\ ret = NoRet
    /\ good = {}
    /\ kept = [p \in Pairs |-> 0]
    /\ now = 0
    /\ time_range = "AllTime"
    /\ filtered = <<>>
    /\ stats = None
    /\ loads = <<>>
    /\ NoHistory
    /\ NoView
    /\ NoCall

\* process_file, lines 96-107
FileOpen ==
    /\ pc = "files"
    /\ Len(pass_counts) < 2
    /\ pc' = "lines"
    /\ entries' = <<>>
    /\ local_dedup' = {}
    /\ session_id' = Some(<<"s", "1">>)
    /\ nlines' = 0
    /\ UNCHANGED <<line, ret, global_dedup, walked, files, all_entries,
                   result, good, kept, content, pass_counts>>
    /\ UNCHANGED viewvars
    /\ UNCHANGED <<histvars, rootvars, callvars>>

\* process_file, lines 109-122, on the next line of the content
FileStep ==
    /\ pc = "lines"
    /\ nlines < Len(content)
    /\ FileLine(content[nlines + 1])
    /\ nlines' = nlines + 1
    /\ UNCHANGED <<line, ret, session_id, pc, walked, files, all_entries,
                   result, good, kept, content, pass_counts>>
    /\ UNCHANGED viewvars
    /\ UNCHANGED <<histvars, rootvars, callvars>>

\* process_file, line 124
FileReturn ==
    /\ pc = "lines"
    /\ nlines = Len(content)
    /\ pass_counts' = Append(pass_counts, Len(entries))
    /\ all_entries' = all_entries \o entries
    /\ pc' = "files"
    /\ entries' = <<>>
    /\ local_dedup' = {}
    /\ session_id' = None
    /\ UNCHANGED <<line, ret, global_dedup, walked, files, nlines, result,
                   good, kept, content>>
    /\ UNCHANGED viewvars
    /\ UNCHANGED <<histvars, rootvars, callvars>>

FileNext == FileOpen \/ FileStep \/ FileReturn

SpecFile == FileInit /\ [][FileNext]_vars

(***************************************************************************)
(* The load as a function of the files found and their modification times. *)
(* A file is [dir, readable, lines]: the name of its parent directory,     *)
(* whether read_to_string succeeds, and its non-blank lines.               *)
(***************************************************************************)
\* find_jsonl_files, lines 49-59: the paths in walk order, sorted by the
\* modification time mtimes[i] of the i-th path, newest first.
find_jsonl_files(walk, mtimes) ==
    LET stamped == [i \in 1..Len(walk) |-> [path |-> walk[i], mtime |-> mtimes[i]]]
        sorted == SortDesc(stamped, Modified)
    IN  [i \in 1..Len(walk) |-> sorted[i].path]

\* process_file, lines 114-121: one line of the file, given what the lines
\* before it left.
file_step(acc, ln, sid) ==
    LET r == process_line(ln, sid, acc.local, acc.global)
    IN  [entries |-> IF r.outcome = "Some"
                     THEN Append(acc.entries, r.entry) ELSE acc.entries,
         local |-> r.local,
         global |-> r.global]

\* The records of the file's lines in line order, and the load-wide set as
\* the loop of lines 109-122 leaves it.
file_lines(file, global) ==
    LET n == Len(file.lines)
        f[i \in 0..n] ==
            IF i = 0
            THEN [entries |-> <<>>, local |-> {}, global |-> global]
            ELSE file_step(f[i - 1], file.lines[i], Some(file.dir))
    IN  f[n]

\* process_file: Err when the file cannot be read, else the records of its
\* lines, and the load-wide set as the call leaves it.
process_file(file, global) ==
    IF file.readable
    THEN [ok |-> TRUE] @@ file_lines(file, global)
    ELSE [ok |-> FALSE, entries |-> <<>>, local |-> {}, global |-> global]

\* process_all_files, lines 70-83: one file, given what the files before it
\* left.
load_step(acc, file) ==
    LET r == process_file(file, acc.global)
    IN  IF r.ok
        THEN [all_entries |-> acc.all_entries \o r.entries, global |-> r.global]
        ELSE acc

\* process_all_files, lines 67-89, on the sorted paths.
process_all_files(sorted_files) ==
    LET n == Len(sorted_files)
        f[i \in 0..n] ==
            IF i = 0
            THEN [all_entries |-> <<>>, global |-> {}]
            ELSE load_step(f[i - 1], sorted_files[i])
    IN  SortDesc(f[n].all_entries, Timestamp)

(***************************************************************************)
(* SpecOrder: the same two files loaded twice.  Between the loads only the *)
(* modification times change, and with them the order the files are        *)
(* processed in.                                                           *)
(***************************************************************************)
OrderLines ==
    {Json(TsOk(1, 0), Msg(Str(<<"a">>), Absent, PlainUsage), Str(<<"c">>),
          Absent, CostAbsent),
     Json(TsOk(2, 0), Msg(Str(<<"a">>), Absent, PlainUsage), Str(<<"c">>),
          Absent, CostAbsent),
     Json(TsOk(1, 0), Msg(Absent, Absent, PlainUsage), Absent, Absent,
          CostAbsent)}

OrderContents == UNION {[1..n -> OrderLines] : n \in 0..MaxLines}

OrderInit ==
    /\ \E c1, c2 \in OrderContents, d \in Dirs, r \in BOOLEAN :
          files = <<[dir |-> <<"s", "1">>, readable |-> TRUE, lines |-> c1],
                    [dir |-> d, readable |-> r, lines |-> c2]>>
    /\ loads = <<>>
    /\ NoHistory
    /\ NoView
    /\ NoCall
    /\ pc = "walk"
    /\ walked = 0
    /\ nlines = 0
    /\ all_entries = <<>>
    /\ result = ""
    /\ global_dedup = {}
    /\ local_dedup = {}
    /\ entries = <<>>
    /\ session_id = None
    /\ line = Garbage
    /\ ret = NoRet
    /\ good = {}
    /\ kept = [p \in Pairs |-> 0]
    /\ content = <<>>
    /\ pass_counts = <<>>
    /\ now = 0
    /\ time_range = "AllTime"
    /\ filtered = <<>>
    /\ stats = None

\* One run of process_all_files with the modification times of the moment.
OrderLoad ==
    /\ Len(loads) < 2
    /\ \E mtimes \in [1..Len(files) -> ModifiedTimes] :
          loads' = Append(loads, process_all_files(find_jsonl_files(files, mtimes)))
    /\ UNCHANGED <<line, ret, session_id, local_dedup, global_dedup, entries,
                   pc, walked, files, nlines, all_entries, result, good, kept,
                   content, pass_counts, now, time_range, filtered, stats>>
    /\ UNCHANGED <<histvars, rootvars, callvars>>

OrderNext == OrderLoad

SpecOrder == OrderInit /\ [][OrderNext]_vars

(***************************************************************************)
(* UsageAggregator (aggregator.rs).  Time is counted in ticks; a record's  *)
(* timestamp, now and the cutoffs are instants in ticks.                   *)
(***************************************************************************)
TicksPerDay == 2

\* Duration::days(7) and Duration::days(30), in days
Last7Days_days == 7

Last30Days_days == 30

Duration_days(n) == n * TicksPerDay

\* A record at the cutoff itself is left out.
filter_by_time_range_after_cutoff(entries_in, range, now_utc) ==
    IF range = "AllTime"
    THEN entries_in
    ELSE IF range = "Last7Days"
    THEN LET cutoff == now_utc - Duration_days(Last7Days_days)
             keep(e) == e.timestamp > cutoff
         IN  SelectSeq(entries_in, keep)
    ELSE LET cutoff == now_utc - Duration_days(Last30Days_days)
             keep(e) == e.timestamp > cutoff
         IN  SelectSeq(entries_in, keep)

\* filter_by_time_range, lines 24-49, with `now` what Utc::now() returned at
\* line 21.
filter_by_time_range(entries_in, range, now_utc) ==
    IF range = "AllTime"
    THEN entries_in
    ELSE IF range = "Last7Days"
    THEN LET cutoff == now_utc - Duration_days(Last7Days_days)
             keep(e) == e.timestamp >= cutoff
         IN  SelectSeq(entries_in, keep)
    ELSE LET cutoff == now_utc - Duration_days(Last30Days_days)
             keep(e) == e.timestamp >= cutoff
         IN  SelectSeq(entries_in, keep)

Unknown == <<"U", "n", "k", "n", "o", "w", "n">>

Unknown_Project == Unknown \o <<" ", "P", "r", "o", "j", "e", "c", "t">>

\* Every record starts a row of its own.
or_insert_with_always(map, k, fresh) ==
    Append(map, [key |-> k, value |-> fresh])

\* A HashMap<String, Row> under construction is the sequence of its
\* [key, value] pairs in the order the keys were first seen.
\* HashMap::entry(k).or_insert_with(|| fresh)
or_insert_with(map, k, fresh) ==
    IF \E i \in 1..Len(map) : map[i].key = k
    THEN map
    ELSE Append(map, [key |-> k, value |-> fresh])

\* the position of the pair that holds key k
slot(map, k) == CHOOSE i \in 1..Len(map) : map[i].key = k

\* HashMap::into_values().collect(): the values in the map's iteration
\* order, which the code does not control.  Two orders are told apart: the
\* order of first appearance and its reverse.
into_values(map, reversed) ==
    [i \in 1..Len(map) |->
        map[IF reversed THEN Len(map) + 1 - i ELSE i].value]

Digit(d) == <<"0", "1", "2", "3", "4", "5", "6", "7", "8", "9">>[d + 1]

Pow10(i) == IF i = 0 THEN 1 ELSE IF i = 1 THEN 10 ELSE IF i = 2 THEN 100 ELSE IF i = 3 THEN 1000 ELSE 10000

\* The byte of a character of a date string.
byte_of(ch) ==
    IF ch = "+" THEN 43
    ELSE IF ch = "-" THEN 45
    ELSE 48 + (CHOOSE d \in 0..9 : Digit(d) = ch)

\* String::cmp is not greater: byte by byte, a proper prefix first.
str_le(a, b) ==
    LET differ == {i \in 1..Len(a) : i > Len(b) \/ a[i] # b[i]}
    IN  IF differ = {}
        THEN TRUE
        ELSE LET i == CHOOSE i \in differ : \A j \in differ : i <= j
             IN  i <= Len(b) /\ byte_of(a[i]) < byte_of(b[i])

\* Vec::sort_by(|a, b| a.date.cmp(&b.date)): smallest string first; stable.
InsertAsc(sorted, x, key) ==
    LET n == Cardinality({j \in 1..Len(sorted) : str_le(sorted[j][key], x[key])})
    IN  SubSeq(sorted, 1, n) \o <<x>> \o SubSeq(sorted, n + 1, Len(sorted))

SortAsc(seq, key) ==
    LET f[i \in 0..Len(seq)] ==
            IF i = 0 THEN <<>> ELSE InsertAsc(f[i - 1], seq[i], key)
    IN  f[Len(seq)]

\* The calendar of the model: tick 0 is 9999-12-02T00:00:00Z, so that day 29
\* is the last day a four-digit RFC 3339 timestamp can name and the instants
\* after it are reached through a negative UTC offset only.
date_naive(timestamp) ==
    LET day == timestamp \div TicksPerDay
    IN  IF day <= 29
        THEN [year |-> 9999, month |-> 12, day |-> day + 2]
        ELSE [year |-> 10000, month |-> 1, day |-> day - 29]

\* the decimal digits of n, at least `width` of them
digits(n, width) ==
    LET f[i \in 0..5] ==
            IF i = 0 THEN <<>>
            ELSE IF i > width /\ n < Pow10(i - 1) THEN f[i - 1]
            ELSE <<Digit((n \div Pow10(i - 1)) % 10)>> \o f[i - 1]
    IN  f[5]

\* DateTime::format("%Y-%m-%d"): chrono writes a year from 0 to 9999 with
\* four digits and every other year with a sign in front.
format_date(timestamp) ==
    LET d == date_naive(timestamp)
        year == IF d.year \in 0..9999
                THEN digits(d.year, 4)
                ELSE <<"+">> \o digits(d.year, 4)
    IN  year \o <<"-">> \o digits(d.month, 2) \o <<"-">> \o digits(d.day, 2)

\* calculate_model_stats, lines 131-153: one record of the loop
model_add(map_in, entry) ==
    LET fresh == [model |-> entry.model,
                   display_name |-> get_model_display_name(entry.model),
                   total_cost |-> 0, total_tokens |-> 0,
                   input_tokens |-> 0, output_tokens |-> 0,
                   cache_read_tokens |-> 0,
                   cache_creation_tokens |-> 0,
                   request_count |-> 0]
         map == or_insert_with(map_in, entry.model, fresh)
         at == slot(map, entry.model)
         old == map[at].value
     IN  [map EXCEPT ![at].value =
            [old EXCEPT
                !.total_cost = @ + entry.cost,
                !.input_tokens = @ + entry.input_tokens,
                !.output_tokens = @ + entry.output_tokens,
                !.cache_read_tokens = @ + entry.cache_read_tokens,
                !.cache_creation_tokens = @ + entry.cache_creation_tokens,
                !.total_tokens = old.input_tokens + entry.input_tokens
                                 + old.output_tokens + entry.output_tokens,
                !.request_count = @ + 1]]

\* calculate_model_stats, lines 128-158
calculate_model_stats(entries_in, reversed) ==
    LET n == Len(entries_in)
        model_map[i \in 0..n] ==
            IF i = 0 THEN <<>>
            ELSE model_add(model_map[i - 1], entries_in[i])
    IN  SortDesc(into_values(model_map[n], reversed), "total_cost")

\* The four-category token total of a row after `entry` is added to it.
total_after(old, entry) ==
    old.input_tokens + entry.input_tokens
    + old.output_tokens + entry.output_tokens
    + old.cache_read_tokens + entry.cache_read_tokens
    + old.cache_creation_tokens + entry.cache_creation_tokens

\* Option::unwrap_or
unwrap_or(o, default) == IF o.some THEN o.v ELSE default

\* calculate_project_stats, lines 198-205: the second pass for one row.
\* The filter compares the record's Option<String> with Some(row path).
project_sessions(entries_in, project_path) ==
    {entries_in[i].session_id.v :
        i \in {j \in 1..Len(entries_in) :
                 /\ entries_in[j].project_path = Some(project_path)
                 /\ entries_in[j].session_id.some}}

\* One character of str::split('/'): a slash ends the current piece.
split_step(pieces, ch) ==
    IF ch = "/"
    THEN [done |-> Append(pieces.done, pieces.cur), cur |-> <<>>]
    ELSE [done |-> pieces.done, cur |-> Append(pieces.cur, ch)]

\* str::split('/').filter(|s| !s.is_empty()).collect()
split_components(project_path) ==
    LET n == Len(project_path)
        f[i \in 0..n] ==
            IF i = 0 THEN [done |-> <<>>, cur |-> <<>>]
            ELSE split_step(f[i - 1], project_path[i])
        non_empty(c) == c # <<>>
    IN  SelectSeq(Append(f[n].done, f[n].cur), non_empty)

project_markers ==
    {<<"G", "i", "t", "h", "u", "b">>,
     <<"g", "i", "t", "h", "u", "b">>,
     <<"P", "r", "o", "j", "e", "c", "t", "s">>,
     <<"p", "r", "o", "j", "e", "c", "t", "s">>,
     <<"c", "o", "d", "e">>,
     <<"C", "o", "d", "e">>,
     <<"d", "e", "v">>,
     <<"D", "e", "v", "e", "l", "o", "p", "m", "e", "n", "t">>,
     <<"s", "r", "c">>,
     <<"r", "e", "p", "o", "s">>}

common_subdirs ==
    {<<"s", "r", "c">>,
     <<"s", "c", "r", "i", "p", "t", "s">>,
     <<"l", "i", "b">>,
     <<"b", "i", "n">>,
     <<"d", "i", "s", "t">>,
     <<"b", "u", "i", "l", "d">>,
     <<"o", "u", "t">>,
     <<"t", "a", "r", "g", "e", "t">>}

\* The component after the rightmost marker is taken.
extract_project_name_last_marker(project_path) ==
    LET components == split_components(project_path)
        n == Len(components)
        marked == {i \in 1..n : components[i] \in project_markers /\ i + 1 <= n}
        plain == {i \in 1..n : components[i] \notin common_subdirs}
    IN  IF marked # {}
        THEN components[(CHOOSE i \in marked : \A j \in marked : j <= i) + 1]
        ELSE IF plain # {}
        THEN components[CHOOSE i \in plain : \A j \in plain : j <= i]
        ELSE IF n > 0 THEN components[n] ELSE Unknown

\* Without a marker the last component is taken, boring or not.
extract_project_name_last_component(project_path) ==
    LET components == split_components(project_path)
        n == Len(components)
        marked == {i \in 1..n : components[i] \in project_markers /\ i + 1 <= n}
    IN  IF marked # {}
        THEN components[(CHOOSE i \in marked : \A j \in marked : i <= j) + 1]
        ELSE IF n > 0 THEN components[n] ELSE Unknown

\* extract_project_name, lines 327-354
extract_project_name(project_path) ==
    LET components == split_components(project_path)
        n == Len(components)
        marked == {i \in 1..n : components[i] \in project_markers /\ i + 1 <= n}
        plain == {i \in 1..n : components[i] \notin common_subdirs}
    IN  IF marked # {}
        THEN components[(CHOOSE i \in marked : \A j \in marked : i <= j) + 1]
        ELSE IF plain # {}
        THEN components[CHOOSE i \in plain : \A j \in plain : j <= i]
        ELSE IF n > 0 THEN components[n] ELSE Unknown

\* calculate_project_stats, lines 164-195: one record of the loop
project_add(map_in, entry) ==
    LET project_path == unwrap_or(entry.project_path, Unknown_Project)
         fresh == [project_name |-> extract_project_name(project_path),
                   project_path |-> project_path,
                   total_cost |-> 0, total_tokens |-> 0,
                   input_tokens |-> 0, output_tokens |-> 0,
                   cache_read_tokens |-> 0,
                   cache_creation_tokens |-> 0,
                   request_count |-> 0, session_count |-> 0,
                   last_used |-> entry.timestamp]
         map == or_insert_with(map_in, project_path, fresh)
         at == slot(map, project_path)
         old == map[at].value
     IN  [map EXCEPT ![at].value =
            [old EXCEPT
                !.total_cost = @ + entry.cost,
                !.input_tokens = @ + entry.input_tokens,
                !.output_tokens = @ + entry.output_tokens,
                !.cache_read_tokens = @ + entry.cache_read_tokens,
                !.cache_creation_tokens = @ + entry.cache_creation_tokens,
                !.total_tokens = total_after(old, entry),
                !.request_count = @ + 1,
                !.last_used = IF entry.timestamp > @
                              THEN entry.timestamp ELSE @]]
   

\* calculate_project_stats, lines 197-205: every row gets the number of
\* sessions the second pass finds for it.
count_sessions(map_in, entries_in) ==
    [i \in 1..Len(map_in) |->
        [map_in[i] EXCEPT !.value.session_count =
            Cardinality(project_sessions(entries_in, map_in[i].value.project_path))]]

\* calculate_project_stats, lines 161-210
calculate_project_stats(entries_in, reversed) ==
    LET n == Len(entries_in)
        project_map[i \in 0..n] ==
            IF i = 0 THEN <<>>
            ELSE project_add(project_map[i - 1], entries_in[i])
        counted == count_sessions(project_map[n], entries_in)
    IN  SortDesc(into_values(counted, reversed), "total_cost")

\* calculate_session_stats, lines 216-249: one record of the loop
session_add(map_in, entry) ==
    LET session_key == unwrap_or(entry.project_path, unknown)
                        \o Colon
                        \o unwrap_or(entry.session_id, unknown)
         fresh == [session_id |-> unwrap_or(entry.session_id, Unknown),
                   project_path |-> unwrap_or(entry.project_path, Unknown_Project),
                   total_cost |-> 0, total_tokens |-> 0,
                   input_tokens |-> 0, output_tokens |-> 0,
                   cache_read_tokens |-> 0,
                   cache_creation_tokens |-> 0,
                   request_count |-> 0,
                   timestamp |-> entry.timestamp]
         map == or_insert_with(map_in, session_key, fresh)
         at == slot(map, session_key)
         old == map[at].value
     IN  [map EXCEPT ![at].value =
            [old EXCEPT
                !.total_cost = @ + entry.cost,
                !.input_tokens = @ + entry.input_tokens,
                !.output_tokens = @ + entry.output_tokens,
                !.cache_read_tokens = @ + entry.cache_read_tokens,
                !.cache_creation_tokens = @ + entry.cache_creation_tokens,
                !.total_tokens = total_after(old, entry),
                !.request_count = @ + 1,
                !.timestamp = IF entry.timestamp > @
                              THEN entry.timestamp ELSE @]]

\* calculate_session_stats, lines 213-254
calculate_session_stats(entries_in, reversed) ==
    LET n == Len(entries_in)
        session_map[i \in 0..n] ==
            IF i = 0 THEN <<>>
            ELSE session_add(session_map[i - 1], entries_in[i])
    IN  SortDesc(into_values(session_map[n], reversed), "timestamp")

\* calculate_daily_usage, lines 260-288: one record of the loop
daily_add(map_in, entry) ==
    LET date_key == format_date(entry.timestamp)
         fresh == [date |-> date_key,
                   total_cost |-> 0, total_tokens |-> 0,
                   input_tokens |-> 0, output_tokens |-> 0,
                   cache_read_tokens |-> 0,
                   cache_creation_tokens |-> 0,
                   request_count |-> 0,
                   models_used |-> <<>>]
         map == or_insert_with(map_in, date_key, fresh)
         at == slot(map, date_key)
         old == map[at].value
     IN  [map EXCEPT ![at].value =
            [old EXCEPT
                !.total_cost = @ + entry.cost,
                !.input_tokens = @ + entry.input_tokens,
                !.output_tokens = @ + entry.output_tokens,
                !.cache_read_tokens = @ + entry.cache_read_tokens,
                !.cache_creation_tokens = @ + entry.cache_creation_tokens,
                !.total_tokens = total_after(old, entry),
                !.request_count = @ + 1,
                !.models_used =
                    IF \E k \in 1..Len(@) : @[k] = entry.model
                    THEN @ ELSE Append(@, entry.model)]]

\* calculate_daily_usage, lines 257-293
calculate_daily_usage(entries_in, reversed) ==
    LET n == Len(entries_in)
        daily_map[i \in 0..n] ==
            IF i = 0 THEN <<>>
            ELSE daily_add(daily_map[i - 1], entries_in[i])
    IN  SortAsc(into_values(daily_map[n], reversed), "date")

\* UsageStats::new, models.rs 36-52.  A HashMap<String, Row> that is
\* complete is the function from its keys to its rows.
UsageStats_new ==
    [total_cost |-> 0, total_input_tokens |-> 0, total_output_tokens |-> 0,
     total_cache_read_tokens |-> 0, total_cache_creation_tokens |-> 0,
     total_tokens |-> 0, session_count |-> 0, entries |-> <<>>,
     model_stats |-> <<>>, project_stats |-> <<>>, session_stats |-> <<>>,
     daily_usage |-> <<>>]

\* Iterator::sum over one field of the records
sum(entries_in, field) ==
    LET f[i \in 0..Len(entries_in)] ==
            IF i = 0 THEN 0 ELSE f[i - 1] + entries_in[i][field]
    IN  f[Len(entries_in)]

\* The first row of the list is passed over.
insert_all_but_first(stats_vec, key) ==
    LET f[i \in 0..Len(stats_vec)] ==
            IF i <= 1 THEN <<>>
            ELSE (stats_vec[i][key] :> stats_vec[i]) @@ f[i - 1]
    IN  f[Len(stats_vec)]

\* calculate_usage_stats, lines 87-105: HashMap::insert of every row of the
\* list under the row's field `key`; a later row replaces an earlier one
\* with the same key.
insert_all(stats_vec, key) ==
    LET f[i \in 0..Len(stats_vec)] ==
            IF i = 0 THEN <<>>
            ELSE (stats_vec[i][key] :> stats_vec[i]) @@ f[i - 1]
    IN  f[Len(stats_vec)]

\* calculate_usage_stats, lines 53-123.  rev_* say in which order each of
\* the four intermediate HashMaps is iterated.
calculate_usage_stats(entries_in, rev_model, rev_project, rev_session, rev_daily) ==
    IF entries_in = <<>>
    THEN UsageStats_new
    ELSE LET total_input_tokens == sum(entries_in, "input_tokens")
             total_output_tokens == sum(entries_in, "output_tokens")
             total_cache_read_tokens == sum(entries_in, "cache_read_tokens")
             total_cache_creation_tokens == sum(entries_in, "cache_creation_tokens")
         IN  [total_cost |-> sum(entries_in, "cost"),
              total_input_tokens |-> total_input_tokens,
              total_output_tokens |-> total_output_tokens,
              total_cache_read_tokens |-> total_cache_read_tokens,
              total_cache_creation_tokens |-> total_cache_creation_tokens,
              total_tokens |-> total_input_tokens + total_output_tokens
                               + total_cache_read_tokens
                               + total_cache_creation_tokens,
              session_count |->
                  Cardinality({entries_in[i].session_id.v :
                      i \in {j \in 1..Len(entries_in) : entries_in[j].session_id.some}}),
              entries |-> entries_in,
              model_stats |->
                  insert_all(calculate_model_stats(entries_in, rev_model), "model"),
              project_stats |->
                  insert_all(calculate_project_stats(entries_in, rev_project), "project_path"),
              session_stats |->
                  insert_all(calculate_session_stats(entries_in, rev_session), "session_id"),
              daily_usage |->
                  insert_all(calculate_daily_usage(entries_in, rev_daily), "date")]

(***************************************************************************)
(* SpecStats: a loaded record list is filtered by a time range and         *)
(* aggregated, as RootView does with the records of a load.  The records   *)
(* are those process_line makes of the lines below, in the order           *)
(* process_all_files returns them in.                                      *)
(***************************************************************************)
TimeRanges == {"AllTime", "Last7Days", "Last30Days"}

\* Instants around the two cutoffs.
StatNows ==
    {Duration_days(Last30Days_days), Duration_days(Last30Days_days) + 1}

SevenDaysBefore == Duration_days(Last30Days_days - Last7Days_days)

StatLines ==
    {Json(TsOk(0, 0), Msg(Absent, Str(<<>>), PlainUsage), Absent, Absent,
          CostNum(7)),
     Json(TsOk(1, 0), Msg(Absent, Str(sonnet_4 \o <<"-">> \o opus_4), PlainUsage),
          Absent, Str(<<"/", "p">>), CostAbsent),
     Json(TsOk(SevenDaysBefore - 1, 0),
          Msg(Absent, Str(claude_opus_4 \o <<"-", "x">>), PlainUsage),
          Absent, Str(<<"/", "q">>), CostAbsent),
     Json(TsOk(SevenDaysBefore, 0),
          Msg(Absent, Str(gpt_5_experimental), PlainUsage),
          Absent, Str(<<"/", "p">>), CostAbsent),
     Json(TsOk(SevenDaysBefore + 1, 0), Msg(Absent, Absent, PlainUsage),
          Absent, Absent, CostAbsent),
     Json(TsOk(SevenDaysBefore + 1, 0), Msg(Absent, Str(Opus_4), PlainUsage),
          Absent, Absent, CostNum(7)),
     Json(TsOk(Duration_days(Last30Days_days) - 1, -1),
          Msg(Absent, Str(claude_sonnet_4 \o <<"-", "x">>), PlainUsage),
          Absent, Str(<<"/", "q">>), CostAbsent)}

\* The session id is the name of the file's parent directory; None when that
\* name is not UTF-8.
StatSessions == {None} \cup {Some(d) : d \in Dirs}

StatEntries ==
    {process_line(ln, sid, {}, {}).entry : ln \in StatLines, sid \in StatSessions}

StatsInit ==
    /\ \E n \in 0..MaxEntries : \E list \in [1..n -> StatEntries] :
          all_entries = SortDesc(list, Timestamp)
    /\ result = "Ok"
    /\ pc = "returned"
    /\ now = 0
    /\ time_range = "AllTime"
    /\ filtered = <<>>
    /\ stats = None
    /\ loads = <<>>
    /\ NoHistory
    /\ NoView
    /\ NoCall
    /\ walked = 0
    /\ files = <<>>
    /\ nlines = 0
    /\ global_dedup = {}
    /\ local_dedup = {}
    /\ entries = <<>>
    /\ session_id = None
    /\ line = Garbage
    /\ ret = NoRet
    /\ good = {}
    /\ kept = [p \in Pairs |-> 0]
    /\ content = <<>>
    /\ pass_counts = <<>>

\* filter_by_time_range on the loaded records, then calculate_usage_stats on
\* what it returned.
Analyze ==
    /\ stats = None
    /\ \E range \in TimeRanges, now_utc \in StatNows :
          /\ time_range' = range
          /\ now' = now_utc
          /\ filtered' = filter_by_time_range(all_entries, range, now_utc)
    /\ \E rev_model, rev_project, rev_session, rev_daily \in BOOLEAN :
          stats' = Some(calculate_usage_stats(filtered', rev_model, rev_project,
                                              rev_session, rev_daily))
    /\ UNCHANGED <<line, ret, session_id, local_dedup, global_dedup, entries,
                   pc, walked, files, nlines, all_entries, result, good, kept,
                   content, pass_counts, loads>>
    /\ UNCHANGED <<histvars, rootvars, callvars>>

StatsNext == Analyze

SpecStats == StatsInit /\ [][StatsNext]_vars

(***************************************************************************)
(* utils/formatting.rs: truncate_project_path.  A str is a sequence of     *)
(* characters; its length and its slices are counted in UTF-8 bytes.       *)
(***************************************************************************)
\* The number of bytes of a character: the model has one character of two
\* bytes, all others are ASCII.
utf8_width(ch) == IF ch = "é" THEN 2 ELSE 1

\* str::len
str_len(str) ==
    LET f[i \in 0..Len(str)] ==
            IF i = 0 THEN 0 ELSE f[i - 1] + utf8_width(str[i])
    IN  f[Len(str)]

\* &str[..end]: the first `end` bytes; the slice panics when `end` is past
\* the end of the str or falls inside a character.
slice_to(str, end) ==
    LET at == {k \in 0..Len(str) : str_len(SubSeq(str, 1, k)) = end}
    IN  IF at = {}
        THEN [ok |-> FALSE, v |-> <<>>]
        ELSE [ok |-> TRUE, v |-> SubSeq(str, 1, CHOOSE k \in at : TRUE)]

\* str::split('/').collect(): every piece, the empty ones included
split(str) ==
    LET n == Len(str)
        f[i \in 0..n] ==
            IF i = 0 THEN [done |-> <<>>, cur |-> <<>>]
            ELSE split_step(f[i - 1], str[i])
    IN  Append(f[n].done, f[n].cur)

Ellipsis == <<".", ".", ".">>

\* What a call gives back: a String, or a panic.
Returned(str) == [ok |-> TRUE, v |-> str]

Panicked == [ok |-> FALSE, v |-> <<>>]

\* truncate_project_path, formatting.rs 71-82.  `max_length - 3` on usize
\* with max_length < 3 panics in a debug build and wraps in a release
\* build, where the slice then panics: a panic in both.
truncate_project_path(path, max_length) ==
    IF str_len(path) <= max_length
    THEN Returned(path)
    ELSE LET parts == split(path)
         IN  IF Len(parts) > 2
             THEN Returned(Ellipsis \o <<"/">> \o parts[Len(parts)])
             ELSE IF max_length < 3
             THEN Panicked
             ELSE LET head == slice_to(path, max_length - 3)
                  IN  IF head.ok
                      THEN Returned(head.v \o Ellipsis)
                      ELSE Panicked

(***************************************************************************)
(* SpecPath: one call of extract_project_name or of truncate_project_path  *)
(* on a path.                                                              *)
(***************************************************************************)
MaxDepth == 3

MaxLength == 8

\* Components that are a marker and boring, a marker only, boring only,
\* and neither.
PathComponents ==
    {<<"s", "r", "c">>, <<"d", "e", "v">>, <<"l", "i", "b">>, <<"m", "e">>, <<"a", "p", "p">>}

\* The components joined by slashes, with or without a leading and a
\* trailing slash.
join(list, leading, trailing) ==
    LET f[i \in 0..Len(list)] ==
            IF i = 0 THEN <<>>
            ELSE IF i = 1 THEN list[1]
            ELSE f[i - 1] \o <<"/">> \o list[i]
    IN  (IF leading THEN <<"/">> ELSE <<>>) \o f[Len(list)]
            \o (IF trailing THEN <<"/">> ELSE <<>>)

Paths ==
    {join(list, leading, trailing) :
        list \in UNION {[1..n -> PathComponents] : n \in 0..MaxDepth},
        leading \in BOOLEAN, trailing \in BOOLEAN}
    \cup {<<"/", "h", "o", "m", "e", "/", "m", "e", "/", "G", "i", "t", "h", "u", "b", "/", "w", "i", "d", "g", "e", "t", "-", "a", "p", "p", "/", "s", "r", "c", "/", "m", "a", "i", "n">>,
          <<"/", "t", "m", "p", "/", "s", "c", "r", "i", "p", "t", "s">>,
          <<"/", "v", "e", "r", "y", "/", "l", "o", "n", "g", "/", "p", "a", "t", "h", "/", "t", "o", "/", "p", "r", "o", "j", "e", "c", "t">>,
          <<"t", "o", "o", "l", "o", "n", "g", "n", "a", "m", "e">>,
          <<"a", "é", "é", "é">>}

PathInit ==
    /\ in_path \in Paths
    /\ in_max_length = 0
    /\ out = None
    /\ NoHistory
    /\ NoView
    /\ pc = "returned"
    /\ result = ""
    /\ walked = 0
    /\ files = <<>>
    /\ nlines = 0
    /\ all_entries = <<>>
    /\ global_dedup = {}
    /\ local_dedup = {}
    /\ entries = <<>>
    /\ session_id = None
    /\ line = Garbage
    /\ ret = NoRet
    /\ good = {}
    /\ kept = [p \in Pairs |-> 0]
    /\ content = <<>>
    /\ pass_counts = <<>>
    /\ now = 0
    /\ time_range = "AllTime"
    /\ filtered = <<>>
    /\ stats = None
    /\ loads = <<>>

\* extract_project_name(&in_path)
CallExtract ==
    /\ out = None
    /\ out' = Some([fn |-> "extract_project_name", ok |-> TRUE,
                    v |-> extract_project_name(in_path)])
    /\ UNCHANGED <<in_path, in_max_length>>
    /\ UNCHANGED <<line, ret, session_id, local_dedup, global_dedup, entries,
                   pc, walked, files, nlines, all_entries, result, good, kept,
                   content, pass_counts>>
    /\ UNCHANGED <<viewvars, histvars, rootvars>>

\* truncate_project_path(&in_path, max_length)
CallTruncate ==
    /\ out = None
    /\ \E max_length \in 0..MaxLength :
          LET r == truncate_project_path(in_path, max_length)
          IN  /\ in_max_length' = max_length
              /\ out' = Some([fn |-> "truncate_project_path", ok |-> r.ok,
                              v |-> r.v])
    /\ UNCHANGED in_path
    /\ UNCHANGED <<line, ret, session_id, local_dedup, global_dedup, entries,
                   pc, walked, files, nlines, all_entries, result, good, kept,
                   content, pass_counts>>
    /\ UNCHANGED <<viewvars, histvars, rootvars>>

PathNext == CallExtract \/ CallTruncate

SpecPath == PathInit /\ [][PathNext]_vars

(***************************************************************************)
(* SpecRoot: RootView (app/views/root.rs).  The view is constructed, the   *)
(* load runs once inside the constructor, then the key handler changes the *)
(* time range and the tab, and frames are drawn.                           *)
(***************************************************************************)
DashboardTab == {"Overview", "Models", "Projects", "Sessions", "Timeline"}

\* A directory name of more than 12 bytes.
LongDir == <<"-", "h", "o", "m", "e", "-", "m", "e", "-", "w", "i", "d", "g", "e", "t">>

\* The first record is older than the other two, which have the same
\* timestamp and different working directories.
RootLines ==
    {Json(TsOk(0, 0), Msg(Absent, Absent, PlainUsage), Absent,
          Str(<<"/", "p">>), CostAbsent),
     Json(TsOk(SevenDaysBefore + 1, 0), Msg(Absent, Absent, PlainUsage), Absent,
          Str(<<"/", "p">>), CostAbsent),
     Json(TsOk(SevenDaysBefore + 1, 0), Msg(Absent, Absent, PlainUsage), Absent,
          Str(<<"/", "q">>), CostAbsent)}

RootSessions == {None, Some(<<"s", "1">>), Some(LongDir)}

RootEntries ==
    {process_line(ln, sid, {}, {}).entry : ln \in RootLines, sid \in RootSessions}

\* The view as the struct literal of RootView::new leaves it.
RootInit ==
    /\ NoView
    /\ all_entries = <<>>
    /\ result = ""
    /\ now = 0
    /\ pc = "new"
    /\ time_range = "AllTime"
    /\ filtered = <<>>
    /\ stats = None
    /\ loads = <<>>
    /\ NoHistory
    /\ NoCall
    /\ walked = 0
    /\ files = <<>>
    /\ nlines = 0
    /\ global_dedup = {}
    /\ local_dedup = {}
    /\ entries = <<>>
    /\ session_id = None
    /\ line = Garbage
    /\ ret = NoRet
    /\ good = {}
    /\ kept = [p \in Pairs |-> 0]
    /\ content = <<>>
    /\ pass_counts = <<>>

\* aggregate_entries, aggregator.rs 357-359.  The statistics keep the model,
\* project and daily rows in maps under keys that are unique among the rows,
\* so the iteration order of those three maps does not show in the result;
\* the order of the session rows, which are kept under the bare session id,
\* is drawn.
aggregate_entries(entries_in, rev_session) ==
    calculate_usage_stats(entries_in, FALSE, FALSE, rev_session, FALSE)

\* Without full data the filter runs on an empty record list.
apply_time_filter_without_full(full, old, range, now_utc, rev_session) ==
    Some(aggregate_entries(
            filter_by_time_range(IF full.some THEN full.v.entries ELSE <<>>,
                                 range, now_utc),
            rev_session))

\* apply_time_filter, root.rs 73-90: the value analytics_data has after
\* the call, with now_utc what Utc::now() returns inside
\* filter_by_time_range.
apply_time_filter(full, old, range, now_utc, rev_session) ==
    IF full.some
    THEN Some(aggregate_entries(
                 filter_by_time_range(full.v.entries, range, now_utc),
                 rev_session))
    ELSE old

\* load_data_synchronously, root.rs 197-219, when load_analytics_data_sync
\* returns Err: UsageProcessor::new or process_all_files failed.
LoadFailed ==
    /\ pc = "new"
    /\ pc' = "ready"
    /\ result' = "Err"
    /\ loading_state' = "LoadedFull"
    /\ is_loading' = FALSE
    /\ UNCHANGED <<all_entries, now, active_tab, analytics_data,
                   full_analytics_data, current_time_range, served, rendered>>
    /\ UNCHANGED <<line, ret, session_id, local_dedup, global_dedup, entries,
                   walked, files, nlines, good, kept, content, pass_counts,
                   time_range, filtered, stats, loads>>
    /\ UNCHANGED <<histvars, callvars>>

\* load_data_synchronously when load_analytics_data_sync returns Ok: the
\* records of the load are aggregated, kept as the full data, and the
\* initial filter is applied.
LoadSucceeded ==
    /\ pc = "new"
    /\ pc' = "ready"
    /\ result' = "Ok"
    /\ \E n \in 0..MaxEntries : \E list \in [1..n -> RootEntries] :
          all_entries' = SortDesc(list, Timestamp)
    /\ \E rev_session \in BOOLEAN :
          full_analytics_data' = Some(aggregate_entries(all_entries', rev_session))
    /\ \E now_utc \in StatNows :
          /\ now' = now_utc
          /\ \E rev_session \in BOOLEAN :
                analytics_data' =
                    apply_time_filter(full_analytics_data', analytics_data,
                                      current_time_range, now_utc, rev_session)
    /\ loading_state' = "LoadedFull"
    /\ is_loading' = FALSE
    /\ UNCHANGED <<active_tab, current_time_range, served, rendered>>
    /\ UNCHANGED <<line, ret, session_id, local_dedup, global_dedup, entries,
                   walked, files, nlines, good, kept, content, pass_counts,
                   time_range, filtered, stats, loads>>
    /\ UNCHANGED <<histvars, callvars>>

\* set_time_range, root.rs 133-143, called by the key handler (alt+1/2/3).
\* The clock does not go back.  cx.notify() asks for a new frame.
set_time_range ==
    /\ pc = "ready"
    /\ \E range \in TimeRanges :
          IF current_time_range # range
          THEN /\ current_time_range' = range
               /\ \E now_utc \in StatNows :
                     /\ now_utc >= now
                     /\ now' = IF full_analytics_data.some THEN now_utc ELSE now
                     /\ \E rev_session \in BOOLEAN :
                           analytics_data' =
                               apply_time_filter(full_analytics_data,
                                                 analytics_data, range, now_utc,
                                                 rev_session)
               /\ served' = ""
               /\ rendered' = ""
          ELSE UNCHANGED <<current_time_range, now, analytics_data, served,
                           rendered>>
    /\ UNCHANGED <<all_entries, result, pc, active_tab, full_analytics_data,
                   is_loading, loading_state>>
    /\ UNCHANGED <<line, ret, session_id, local_dedup, global_dedup, entries,
                   walked, files, nlines, good, kept, content, pass_counts,
                   time_range, filtered, stats, loads>>
    /\ UNCHANGED <<histvars, callvars>>

\* set_active_tab, root.rs 55-61, and the key handler (keys 1-5), which
\* assigns the tab: the same state afterwards.
set_active_tab ==
    /\ pc = "ready"
    /\ \E tab \in DashboardTab :
          IF active_tab # tab
          THEN /\ active_tab' = tab
               /\ served' = ""
               /\ rendered' = ""
          ELSE UNCHANGED <<active_tab, served, rendered>>
    /\ UNCHANGED <<all_entries, result, pc, now, analytics_data,
                   full_analytics_data, is_loading, current_time_range,
                   loading_state>>
    /\ UNCHANGED <<line, ret, session_id, local_dedup, global_dedup, entries,
                   walked, files, nlines, good, kept, content, pass_counts,
                   time_range, filtered, stats, loads>>
    /\ UNCHANGED <<histvars, callvars>>

\* the session ids of get_sample_sessions_analytics, root.rs 397-460
SampleSessionIds ==
    {<<"s", "e", "s", "s", "i", "o", "n", "_", "2", "0", "2", "4", "0", "7", "1", "2", "0", "1">>,
     <<"s", "e", "s", "s", "i", "o", "n", "_", "2", "0", "2", "4", "0", "7", "1", "9", "0", "1">>,
     <<"s", "e", "s", "s", "i", "o", "n", "_", "2", "0", "2", "4", "0", "7", "1", "9", "0", "2">>,
     <<"s", "e", "s", "s", "i", "o", "n", "_", "2", "0", "2", "4", "0", "7", "1", "8", "0", "1">>,
     <<"s", "e", "s", "s", "i", "o", "n", "_", "2", "0", "2", "4", "0", "7", "1", "7", "0", "1">>}

\* get_sessions_data, root.rs 385-394: the session ids of the rows
get_sessions_data(data) ==
    IF data.some
    THEN {data.v.session_stats[k].session_id : k \in DOMAIN data.v.session_stats}
    ELSE SampleSessionIds

\* render_sessions_timeline: render_session_timeline_item for every row,
\* which takes &session.session_id[..12] (root.rs 1446).
render_sessions_content(data) ==
    IF \A id \in get_sessions_data(data) : slice_to(id, 12).ok
    THEN "ok" ELSE "panic"

\* One frame: render_main_content, root.rs 614-627, and the tab it draws.
\* Every tab asks for the data with the same test on analytics_data
\* (root.rs 299-308, 385-394, 1544-1552).  A panic ends the program.
render ==
    /\ pc = "ready"
    /\ rendered = ""
    /\ IF is_loading
       THEN /\ served' = ""
            /\ rendered' = "loading"
       ELSE /\ served' = IF analytics_data.some THEN "real" ELSE "sample"
            /\ rendered' = IF active_tab = "Sessions"
                           THEN render_sessions_content(analytics_data)
                           ELSE "ok"
    /\ pc' = IF rendered' = "panic" THEN "panicked" ELSE pc
    /\ UNCHANGED <<all_entries, result, now, active_tab, analytics_data,
                   full_analytics_data, is_loading, current_time_range,
                   loading_state>>
    /\ UNCHANGED <<line, ret, session_id, local_dedup, global_dedup, entries,
                   walked, files, nlines, good, kept, content, pass_counts,
                   time_range, filtered, stats, loads>>
    /\ UNCHANGED <<histvars, callvars>>

RootNext ==
    \/ LoadFailed
    \/ LoadSucceeded
    \/ set_time_range
    \/ set_active_tab
    \/ render

SpecRoot == RootInit /\ [][RootNext]_vars

(***************************************************************************)
(* Properties.                                                             *)
(***************************************************************************)
KeyOf(pair) == pair[1] \o Colon \o pair[2]

FilesWithGood(pair) == {f \in 1..MaxFiles : <<pair, f>> \in good}

\* C1: if two lines in different files carry the same (message.id,
\* requestId) pair and each would yield a record on its own, the finished
\* load holds exactly one record for that pair.
C1_ExactlyOneRecordPerPair ==
    result = "Ok" =>
        \A p \in Pairs :
            Cardinality(FilesWithGood(p)) >= 2 => kept[p] = 1

\* C2: two lines with distinct (message.id, requestId) pairs, each of which
\* would yield a record on its own, are both kept by the finished load.
C2_DistinctPairsBothKept ==
    result = "Ok" =>
        \A p, q \in Pairs :
            (p # q /\ FilesWithGood(p) # {} /\ FilesWithGood(q) # {})
                => (kept[p] >= 1 /\ kept[q] >= 1)

\* The lines of the file that lack an id and yield a record on their own.
KeylessYielding ==
    {i \in 1..Len(content) : ~HasPair(content[i]) /\ YieldsAlone(content[i])}

\* C3 as stated: the second call of process_file on the same file with the
\* same load-wide set returns no record.
C3_SecondPassReturnsNothing ==
    Len(pass_counts) = 2 => pass_counts[2] = 0

\* C3 as amended: the second call returns no record for a line that carries
\* both ids, and one record again for each line that lacks one and yields a
\* record.
C3_SecondPassReturnsKeylessOnly ==
    Len(pass_counts) = 2 => pass_counts[2] = Cardinality(KeylessYielding)

\* a file of three lines, read with an empty load-wide set: the first call
\* returned three records, the second one only the two of the lines
\* without a key
C3_Witness ==
    /\ Len(pass_counts) = 2
    /\ Len(content) = 3
    /\ pass_counts[1] = 3
    /\ pass_counts[2] = 2
    /\ \E i \in 1..3 : HasPair(content[i]) /\ YieldsAlone(content[i])

\* C4: every key in the load-wide or the file's set is the key of a record
\* that was kept, and a line that yields a record on its own is not dropped
\* unless a record with its key was kept.
C4_KeysBelongToKeptRecords ==
    /\ \A k \in global_dedup \cup local_dedup :
          \E p \in Pairs : kept[p] >= 1 /\ KeyOf(p) = k
    /\ \A p \in Pairs :
          FilesWithGood(p) # {} =>
              \E q \in Pairs : kept[q] >= 1 /\ KeyOf(q) = KeyOf(p)

\* The step of process_file that consumes line number nlines' of the file.
Consumes == pc = "lines" /\ nlines' = nlines + 1

\* C5: a line that lacks message.id or requestId as a string and otherwise
\* yields a record is kept whatever the two sets hold, and leaves both sets
\* as they were.
C5_KeylessLineAlwaysKept ==
    [][(Consumes /\ ~HasPair(content[nlines'])
            /\ YieldsAlone(content[nlines']))
        => (/\ Len(entries') = Len(entries) + 1
            /\ local_dedup' = local_dedup
            /\ global_dedup' = global_dedup)]_vars

\* three identical lines without ids gave three records, in a file that
\* another path had already filled the load-wide set for
C5_Witness ==
    /\ Len(content) = 3
    /\ content[1] = content[2]
    /\ content[2] = content[3]
    /\ ~HasPair(content[1])
    /\ global_dedup # {}
    /\ Len(entries) = 3

NonZero(e) ==
    \/ e.input_tokens > 0
    \/ e.output_tokens > 0
    \/ e.cache_read_tokens > 0
    \/ e.cache_creation_tokens > 0

\* C6: no record whose four token counts are all zero is ever held by
\* process_file or process_all_files.
C6_NoZeroRecord ==
    /\ \A i \in 1..Len(entries) : NonZero(entries[i])
    /\ \A i \in 1..Len(all_entries) : NonZero(all_entries[i])

\* a load that read a line with ids and zero usage (its key is recorded, no
\* record carries it) and returned a record of another line
C6_Witness ==
    /\ result = "Ok"
    /\ global_dedup # {}
    /\ \A p \in Pairs : kept[p] = 0
    /\ Len(all_entries) >= 1

\* The schedule the claim gives for a model id, in price units.
C7_Rates(model) ==
    IF contains(model, opus_4)
    THEN <<15 * 20, 75 * 20, 30, 375>>
    ELSE IF contains(model, sonnet_4)
    THEN <<3 * 20, 15 * 20, 6, 75>>
    ELSE <<0, 0, 0, 0>>

C7_Expected(ln, e) ==
    IF ln.costUSD.k = "num"
    THEN ln.costUSD.v
    ELSE e.input_tokens * C7_Rates(e.model)[1]
         + e.output_tokens * C7_Rates(e.model)[2]
         + e.cache_read_tokens * C7_Rates(e.model)[3]
         + e.cache_creation_tokens * C7_Rates(e.model)[4]

\* C7: the cost of a produced record is costUSD when that is a number, and
\* otherwise tokens / 1,000,000 times the rate, summed over the four
\* categories, with the Opus-4 schedule tried before the Sonnet-4 one; a
\* million input and a million output tokens of a sonnet-4 model cost 18.
C7_CostOfRecord ==
    ret.outcome = "Some" =>
        /\ ret.entry.cost = C7_Expected(line, ret.entry)
        /\ (/\ line.costUSD.k # "num"
            /\ ret.entry.model = claude_sonnet_4 \o <<"-", "x">>
            /\ ret.entry.input_tokens = PerMillion
            /\ ret.entry.output_tokens = PerMillion
            /\ ret.entry.cache_read_tokens = 0
            /\ ret.entry.cache_creation_tokens = 0)
                => ret.entry.cost = 18 * CostUnitsPerUSD
        /\ (line.costUSD.k # "num" /\ ret.entry.model = gpt_5_experimental)
                => ret.entry.cost = 0

\* a model id that holds both substrings, priced from its tokens as Opus-4
C7_Witness ==
    /\ ret.outcome = "Some"
    /\ line.costUSD.k # "num"
    /\ ret.entry.model = sonnet_4 \o <<"-">> \o opus_4
    /\ ret.entry.input_tokens = PerMillion
    /\ ret.entry.output_tokens = PerMillion
    /\ ret.entry.cost = 90 * CostUnitsPerUSD

\* C8: a file that cannot be read, or a directory entry the walk fails on,
\* never aborts the load: process_all_files returns Ok.
C8_LoadNeverAborts ==
    pc = "returned" => result = "Ok"

\* A line with a recoverable per-line error, as the claim lists them.
RecoverableError(ln) ==
    \/ ~ln.json
    \/ ln.message.k = "absent"
    \/ ln.timestamp.k # "rfc3339"

\* C9: a line with a recoverable per-line error changes neither the file's
\* records nor either set, and the scan goes on with the next line.
C9_ErrorLineHasNoEffect ==
    [][(Consumes /\ RecoverableError(content[nlines']))
        => (/\ pc' = "lines"
            /\ entries' = entries
            /\ local_dedup' = local_dedup
            /\ global_dedup' = global_dedup)]_vars

\* a line with ids and no timestamp, followed by a line with the same ids
\* that was kept
C9_Witness ==
    /\ Len(content) >= 2
    /\ nlines = 2
    /\ content[1].timestamp.k = "absent"
    /\ HasPair(content[1])
    /\ HasPair(content[2])
    /\ PairOf(content[1]) = PairOf(content[2])
    /\ Len(entries) = 1
    /\ Len(pass_counts) = 0

\* The line has a message whose usage is absent or null.
NoUsage(ln) ==
    /\ ln.json
    /\ ln.message.k # "absent"
    /\ (ln.message.k = "other" \/ ln.message.usage.k \in {"absent", "null"})

\* C10 as stated: a valid-JSON line with a message whose usage is absent or
\* null gives the no-record outcome, never an error, whatever its timestamp.
C10_NoUsageIsSilent ==
    (ret # NoRet /\ NoUsage(line)) => ret.outcome = "None"

\* C10 as amended: such a line gives the no-record outcome when its
\* timestamp is a valid RFC 3339 string.
C10_NoUsageIsSilentGivenTimestamp ==
    (ret # NoRet /\ NoUsage(line) /\ line.timestamp.k = "rfc3339")
        => ret.outcome = "None"

C10_Witness ==
    /\ ret.outcome = "None"
    /\ line.message.k = "object"
    /\ line.message.usage.k = "null"
    /\ HasPair(line)
    /\ local_dedup = {}
    /\ global_dedup = {}

\* C15: the record list process_all_files returns is sorted by timestamp,
\* most recent first (non-increasing), whatever the files hold and whatever
\* order they were processed in.
C15_ResultSortedNewestFirst ==
    result = "Ok" =>
        \A i, j \in 1..Len(all_entries) :
            i < j => all_entries[i].timestamp >= all_entries[j].timestamp

\* a finished load that returned two records of two files under different
\* directories, the newer record first
C15_Witness ==
    /\ result = "Ok"
    /\ Len(all_entries) = 2
    /\ all_entries[1].timestamp > all_entries[2].timestamp
    /\ all_entries[1].session_id # all_entries[2].session_id
    /\ all_entries[1].session_id = Some(<<"s", "1">>)

\* C16: two loads of the same files return the same record list (the same
\* records, field values and order), whatever order the files were
\* processed in.
C16_LoadIndependentOfFileOrder ==
    Len(loads) = 2 => loads[1] = loads[2]

\* The sum of one field over the rows of a finished view.
RowSum(view, field) ==
    LET f[keys \in SUBSET DOMAIN view] ==
            IF keys = {} THEN 0
            ELSE LET k == CHOOSE x \in keys : TRUE
                 IN  view[k][field] + f[keys \ {k}]
    IN  f[DOMAIN view]

\* C11: each of the per-model, per-project and per-day views partitions the
\* records: over the rows of the view, total_cost sums to the global total
\* cost and request_count sums to the number of records.
C11_ViewsPartitionRecords ==
    stats.some =>
        \A view \in {"model_stats", "project_stats", "daily_usage"} :
            /\ RowSum(stats.v[view], "total_cost") = stats.v.total_cost
            /\ RowSum(stats.v[view], "request_count") = Len(filtered)

\* two records of one project, one day and two models, with a cost
C11_Witness ==
    /\ stats.some
    /\ Len(filtered) = 2
    /\ Cardinality(DOMAIN stats.v.model_stats) = 2
    /\ Cardinality(DOMAIN stats.v.project_stats) = 1
    /\ Cardinality(DOMAIN stats.v.daily_usage) = 1
    /\ stats.v.total_cost > 0

\* The composite key of a record in the per-session view.
C12_Key(e) ==
    unwrap_or(e.project_path, unknown) \o Colon \o unwrap_or(e.session_id, unknown)

\* C12: the session_stats view of the returned UsageStats holds one row per
\* distinct composite key (project_path or "unknown"):(session_id or
\* "unknown"), and the request counts and costs of its rows sum to the
\* number of records and to the global total cost.
C12_SessionRowPerCompositeKey ==
    stats.some =>
        /\ Cardinality(DOMAIN stats.v.session_stats)
              = Cardinality({C12_Key(filtered[i]) : i \in 1..Len(filtered)})
        /\ RowSum(stats.v.session_stats, "request_count") = Len(filtered)
        /\ RowSum(stats.v.session_stats, "total_cost") = stats.v.total_cost

\* The sessions a project row stands for: the distinct session ids of the
\* records whose resolved project path is the row's key.
C13_Sessions(project_path) ==
    {filtered[i].session_id.v :
        i \in {j \in 1..Len(filtered) :
                 /\ unwrap_or(filtered[j].project_path, Unknown_Project) = project_path
                 /\ filtered[j].session_id.some}}

\* C13: the session_count of every project row is the number of distinct
\* non-absent session ids among the records whose resolved project path is
\* the row's key, the "Unknown Project" row included.
C13_ProjectSessionCount ==
    stats.some =>
        \A k \in DOMAIN stats.v.project_stats :
            stats.v.project_stats[k].session_count = Cardinality(C13_Sessions(k))

\* The distinct session ids that are present in the filtered records.
C14_Sessions ==
    {filtered[i].session_id.v :
        i \in {j \in 1..Len(filtered) : filtered[j].session_id.some}}

\* C14: session_count is the number of distinct non-absent session ids of
\* the records, whatever their projects; two records with one session id
\* under two project paths count once and form two rows of the per-session
\* view.
C14_GlobalSessionCount ==
    stats.some =>
        /\ stats.v.session_count = Cardinality(C14_Sessions)
        /\ \A i, j \in 1..Len(filtered) :
              (/\ filtered[i].session_id.some
               /\ filtered[i].session_id = filtered[j].session_id
               /\ filtered[i].project_path.some
               /\ filtered[j].project_path.some
               /\ filtered[i].project_path # filtered[j].project_path)
                  => Cardinality(DOMAIN stats.v.session_stats) >= 2

\* The records of `seq` at the positions in `keep`, in the order of `seq`.
Pick(seq, keep) ==
    LET f[i \in 0..Len(seq)] ==
            IF i = 0 THEN <<>>
            ELSE IF i \in keep THEN Append(f[i - 1], seq[i]) ELSE f[i - 1]
    IN  f[Len(seq)]

IsSublist(a, b) == \E keep \in SUBSET (1..Len(b)) : a = Pick(b, keep)

\* The positions of the loaded records that a range keeps: all of them for
\* AllTime, otherwise those not strictly before now minus the range's days.
C17_Kept(range) ==
    {i \in 1..Len(all_entries) :
        \/ range = "AllTime"
        \/ /\ range = "Last7Days"
           /\ ~(all_entries[i].timestamp < now - 7 * TicksPerDay)
        \/ /\ range = "Last30Days"
           /\ ~(all_entries[i].timestamp < now - 30 * TicksPerDay)}

\* C17: filter_by_time_range returns, in the input order, exactly the
\* records at or after the cutoff (now minus 7 days for Last7Days, now minus
\* 30 days for Last30Days) and the whole list for AllTime; for one value of
\* now the Last7Days result is a sublist of the Last30Days result, which is
\* a sublist of the AllTime result.
C17_FilterKeepsFromCutoff ==
    stats.some =>
        /\ filtered = Pick(all_entries, C17_Kept(time_range))
        /\ filter_by_time_range(all_entries, "AllTime", now) = all_entries
        /\ IsSublist(filter_by_time_range(all_entries, "Last7Days", now),
                     filter_by_time_range(all_entries, "Last30Days", now))
        /\ IsSublist(filter_by_time_range(all_entries, "Last30Days", now),
                     filter_by_time_range(all_entries, "AllTime", now))

\* Last7Days on two records, one at the cutoff and one a tick before it:
\* the first is returned, the second is not.
C17_Witness ==
    /\ stats.some
    /\ time_range = "Last7Days"
    /\ Len(all_entries) = 2
    /\ all_entries[1].timestamp = now - 7 * TicksPerDay
    /\ all_entries[2].timestamp = now - 7 * TicksPerDay - 1
    /\ filtered = <<all_entries[1]>>

\* C18 as stated: the display name is "Opus 4" exactly for the ids priced
\* with the Opus-4 schedule, "Sonnet 4" exactly for those priced with the
\* Sonnet-4 schedule, and the id itself for every id priced with the zero
\* schedule.
C18_DisplayNameExactlyForBucket ==
    stats.some =>
        \A k \in DOMAIN stats.v.model_stats :
            LET row == stats.v.model_stats[k]
                pricing == get_model_pricing(row.model)
            IN  /\ row.display_name = Opus_4 <=> pricing = Opus4Pricing
                /\ row.display_name = Sonnet_4 <=> pricing = Sonnet4Pricing
                /\ pricing = ZeroPricing => row.display_name = row.model

\* C18, amended: the display name is "Opus 4" for every id priced with the
\* Opus-4 schedule, "Sonnet 4" for every id priced with the Sonnet-4
\* schedule, and the id itself for every id priced with the zero schedule
\* (an unpriced id that reads "Opus 4" or "Sonnet 4" is shown as it is).
C18_DisplayNameMirrorsBucket ==
    stats.some =>
        \A k \in DOMAIN stats.v.model_stats :
            LET row == stats.v.model_stats[k]
                pricing == get_model_pricing(row.model)
            IN  /\ pricing = Opus4Pricing => row.display_name = Opus_4
                /\ pricing = Sonnet4Pricing => row.display_name = Sonnet_4
                /\ pricing = ZeroPricing => row.display_name = row.model

\* The model view holds the row of an id with both substrings and the row
\* of the unpriced id "Opus 4".
C18_Witness ==
    /\ stats.some
    /\ DOMAIN stats.v.model_stats = {sonnet_4 \o <<"-">> \o opus_4, Opus_4}
    /\ \A k \in DOMAIN stats.v.model_stats :
          stats.v.model_stats[k].display_name = Opus_4

\* C19: the display_name of every row of the model view is a non-empty
\* string.
C19_NoEmptyModelLabel ==
    stats.some =>
        \A k \in DOMAIN stats.v.model_stats :
            stats.v.model_stats[k].display_name # <<>>

\* C20: on an empty record list calculate_usage_stats reports zero cost,
\* zero tokens, zero sessions, no entry and four empty maps; on a non-empty
\* list each of the four maps is non-empty and the entry list is the input
\* list.
C20_EmptyAndNonEmptyStats ==
    stats.some =>
        IF filtered = <<>>
        THEN /\ stats.v.total_cost = 0
             /\ stats.v.total_tokens = 0
             /\ stats.v.total_input_tokens = 0
             /\ stats.v.total_output_tokens = 0
             /\ stats.v.total_cache_read_tokens = 0
             /\ stats.v.total_cache_creation_tokens = 0
             /\ stats.v.session_count = 0
             /\ stats.v.entries = <<>>
             /\ \A view \in {"model_stats", "project_stats", "session_stats",
                             "daily_usage"} : DOMAIN stats.v[view] = {}
        ELSE /\ stats.v.entries = filtered
             /\ \A view \in {"model_stats", "project_stats", "session_stats",
                             "daily_usage"} : DOMAIN stats.v[view] # {}

\* One record is aggregated: each of the four maps holds one row.
C20_Witness ==
    /\ stats.some
    /\ Len(filtered) = 1
    /\ stats.v.entries = filtered
    /\ \A view \in {"model_stats", "project_stats", "session_stats",
                    "daily_usage"} : Cardinality(DOMAIN stats.v[view]) = 1

\* The history of the load, the casts, the two dedup sets.

\* C28: during a load the file's dedup set is a subset of the load-wide
\* set, so a line is dropped as a duplicate exactly when its key is in the
\* load-wide set, and process_line gives for every line what it would give
\* with the load-wide set alone.
C28_LocalWithinGlobal ==
    /\ local_dedup \subseteq global_dedup
    /\ pc = "lines" =>
          \A ln \in FileLines \cup LoadLines :
              LET dropped == /\ HasPair(ln)
                             /\ Dedup(ln.message, ln, local_dedup, global_dedup).dup
              IN  dropped <=> (HasPair(ln) /\ KeyOfLine(ln) \in global_dedup)
    /\ (pc = "lines" /\ local_dedup # {}) =>
          \A ln \in FileLines \cup LoadLines :
              LET two == process_line(ln, session_id, local_dedup, global_dedup)
                  one == process_line(ln, session_id, {}, global_dedup)
              IN  /\ two.outcome = one.outcome
                  /\ two.entry = one.entry
                  /\ two.global = one.global

\* The second call of process_file is reading the file: its own set is
\* empty, the load-wide set holds the key the first call left, and the
\* line just read, which carries that key and yields a record on its own,
\* has been dropped.
C28_Witness ==
    /\ pc = "lines"
    /\ Len(pass_counts) = 1
    /\ pass_counts[1] > 0
    /\ local_dedup = {}
    /\ global_dedup # {}
    /\ entries = <<>>
    /\ nlines > 0
    /\ HasPair(content[nlines])
    /\ YieldsAlone(content[nlines])

\* C29: of all lines that share a composite key, each valid and with a
\* nonzero usage count, the record kept is that of the line processed
\* first, with the session id of the file it stands in; no other record is
\* kept for the key.
C29_FirstProcessedIsKept ==
    \A k \in Keys :
        (first_seen[k].first.some /\ first_seen[k].all_valid) =>
            LET first == first_seen[k].first.v
                r == process_line(first.ln, Some(first.dir), {}, {})
            IN  /\ r.outcome = "Some"
                /\ kept_by_key[k] = <<r.entry>>

\* The count of the record equals the integer the usage field holds in the
\* log (hi * 2^32 + lo), when the field holds one.
C25_Same(entry, field, count) ==
    line.message.usage[field].k = "u64" =>
        /\ line.message.usage[field].hi = 0
        /\ entry[count] = line.message.usage[field].lo

\* C25: in every call of process_line, each token count of the produced
\* record equals the non-negative integer its usage field holds in the log,
\* without wrap-around modulo 2^32, and a valid line with a nonzero count in
\* the log is dropped only as a duplicate, never by the zero-usage filter.
C25_TokenCountsNotWrapped ==
    [][/\ ret'.outcome = "Some" =>
            /\ C25_Same(ret'.entry, "input_tokens", "input_tokens")
            /\ C25_Same(ret'.entry, "output_tokens", "output_tokens")
            /\ C25_Same(ret'.entry, "cache_read_input_tokens", "cache_read_tokens")
            /\ C25_Same(ret'.entry, "cache_creation_input_tokens",
                        "cache_creation_tokens")
       /\ (ret'.outcome = "None" /\ ValidWithUsage(line)) =>
            Dedup(line.message, line, local_dedup, global_dedup).dup]_vars

\* Properties of SpecPath.
Extracted == out.some /\ out.v.fn = "extract_project_name"

Truncated == out.some /\ out.v.fn = "truncate_project_path"

\* The positions of the marker components of a path.
MarkerAt(components) ==
    {i \in 1..Len(components) : components[i] \in project_markers}

Leftmost(positions) == CHOOSE i \in positions : \A j \in positions : i <= j

Rightmost(positions) == CHOOSE i \in positions : \A j \in positions : j <= i

WidgetPath == <<"/", "h", "o", "m", "e", "/", "m", "e", "/", "G", "i", "t", "h", "u", "b", "/", "w", "i", "d", "g", "e", "t", "-", "a", "p", "p", "/", "s", "r", "c", "/", "m", "a", "i", "n">>

WidgetApp == <<"w", "i", "d", "g", "e", "t", "-", "a", "p", "p">>

TmpScripts == <<"/", "t", "m", "p", "/", "s", "c", "r", "i", "p", "t", "s">>

Tmp == <<"t", "m", "p">>

\* C21 as stated: for every path in which some component equals a marker,
\* the result of extract_project_name is the component immediately
\* following the leftmost marker.
C21_AfterLeftmostMarker ==
    Extracted =>
        LET components == split_components(in_path)
            at == MarkerAt(components)
        IN  at # {} =>
                /\ Leftmost(at) + 1 <= Len(components)
                /\ out.v.v = components[Leftmost(at) + 1]

\* C21 amended: for every path in which some marker is followed by another
\* component, the result of extract_project_name is the component
\* immediately following the leftmost such marker; the widget-app example
\* gives "widget-app".
C21_AfterLeftmostFollowedMarker ==
    Extracted =>
        LET components == split_components(in_path)
            at == MarkerAt(components) \ {Len(components)}
        IN  /\ at # {} => out.v.v = components[Leftmost(at) + 1]
            /\ in_path = WidgetPath => out.v.v = WidgetApp

C21_Witness ==
    /\ Extracted
    /\ in_path = WidgetPath
    /\ Cardinality(MarkerAt(split_components(in_path))) = 2
    /\ out.v.v = WidgetApp

\* C22: for every path with no marker component the result of
\* extract_project_name is the rightmost component that is not boring, the
\* last component if all are boring, and "Unknown" if there is no
\* component; for every path the result is a non-empty string that is a
\* component of the path or "Unknown"; "/tmp/scripts" gives "tmp".
C22_FallbackRule ==
    Extracted =>
        LET components == split_components(in_path)
            n == Len(components)
            plain == {i \in 1..n : components[i] \notin common_subdirs}
        IN  /\ MarkerAt(components) = {} =>
                  out.v.v = IF plain # {} THEN components[Rightmost(plain)]
                            ELSE IF n > 0 THEN components[n]
                            ELSE Unknown
            /\ out.v.v # <<>>
            /\ \/ out.v.v = Unknown
               \/ \E i \in 1..n : out.v.v = components[i]
            /\ in_path = TmpScripts => out.v.v = Tmp

C22_Witness ==
    /\ Extracted
    /\ in_path = TmpScripts
    /\ MarkerAt(split_components(in_path)) = {}
    /\ out.v.v = Tmp

\* C24: truncate_project_path never fails and never returns a string
\* longer than max_length; a path of length at most max_length is returned
\* unchanged.
C24_TruncatedFits ==
    Truncated =>
        /\ out.v.ok
        /\ Len(out.v.v) <= in_max_length
        /\ str_len(in_path) <= in_max_length => out.v.v = in_path

\* Properties of the view lists.
NonIncreasing(list, key) ==
    \A i, j \in 1..Len(list) : i < j => list[i][key] >= list[j][key]

StrictlyIncreasingStr(list, key) ==
    \A i, j \in 1..Len(list) :
        i < j => str_le(list[i][key], list[j][key]) /\ list[i][key] # list[j][key]

\* the keys under which the records are grouped in each view
C23_ModelKeys == {filtered[i].model : i \in 1..Len(filtered)}

C23_ProjectKeys ==
    {unwrap_or(filtered[i].project_path, Unknown_Project) : i \in 1..Len(filtered)}

C23_SessionKeys ==
    {unwrap_or(filtered[i].project_path, unknown) \o Colon
        \o unwrap_or(filtered[i].session_id, unknown) : i \in 1..Len(filtered)}

C23_Days == {filtered[i].timestamp \div TicksPerDay : i \in 1..Len(filtered)}

\* ASCII digits and dashes in the places of YYYY-MM-DD
IsDateString(str) ==
    /\ Len(str) = 10
    /\ \A i \in 1..10 :
          IF i \in {5, 8} THEN str[i] = "-"
          ELSE \E d \in 0..9 : str[i] = Digit(d)

Loaded == pc # "new" /\ result = "Ok"

\* The statistics shown are what apply_time_filter computes from the full
\* records, the current range and the instant of the last change of range,
\* for one of the orders the session rows can come in.
ShownIsFilterOfFull ==
    Loaded =>
        /\ analytics_data.some
        /\ full_analytics_data.some
        /\ \E rev_session \in BOOLEAN :
              analytics_data.v =
                  aggregate_entries(
                      filter_by_time_range(full_analytics_data.v.entries,
                                           current_time_range, now),
                      rev_session)

\* The full data is the aggregation of the records of the load, unchanged.
FullIsTheLoad ==
    Loaded =>
        /\ full_analytics_data.v.entries = all_entries
        /\ \E rev_session \in BOOLEAN :
              full_analytics_data.v = aggregate_entries(all_entries, rev_session)

\* The view starts with the last 30 days.
InitialRangeIsLast30Days ==
    /\ pc = "new" => current_time_range = "Last30Days"
    /\ (Loaded /\ current_time_range = "Last30Days") =>
          analytics_data.v.entries =
              filter_by_time_range(all_entries, "Last30Days", now)

\* Under AllTime the statistics shown are those of the full load.
AllTimeIsFull ==
    (Loaded /\ current_time_range = "AllTime") =>
        analytics_data = full_analytics_data

\* C26: after a successful load and any sequence of set_time_range calls,
\* analytics_data is calculate_usage_stats of filter_by_time_range of the
\* full records under the current range, with now taken at the last change
\* of range; full_analytics_data is never modified; the initial range is
\* Last30Days; under AllTime the statistics are those of the full load.
C26_ShownIsFilteredFull ==
    /\ ShownIsFilterOfFull
    /\ FullIsTheLoad
    /\ InitialRangeIsLast30Days
    /\ AllTimeIsFull

\* C27: after a failed load analytics_data stays None, is_loading is false
\* and every frame is served the sample data; after a successful load
\* analytics_data is Some and no frame is served the sample data.
C27_LoadOutcomeSticky ==
    /\ (pc # "new" /\ result = "Err") =>
          /\ analytics_data = None
          /\ ~is_loading
          /\ served # "real"
          /\ rendered # "" => served = "sample"
    /\ (pc # "new" /\ result = "Ok") =>
          /\ analytics_data.some
          /\ ~is_loading
          /\ served # "sample"
          /\ rendered # "" => served = "real"

C27_Witness ==
    /\ result = "Err"
    /\ current_time_range = "AllTime"
    /\ active_tab = "Sessions"
    /\ analytics_data = None
    /\ rendered = "ok"
    /\ served = "sample"

\* a load that found no record, shown after a change of range
C27_EmptyLoadShown ==
    /\ result = "Ok"
    /\ all_entries = <<>>
    /\ current_time_range = "Last7Days"
    /\ analytics_data.some
    /\ served = "real"

\* C30: drawing the Sessions tab never panics: the first 12 bytes of the
\* session_id of every row can be taken.
C30_SessionsTabRenders ==
    /\ rendered # "panic"
    /\ (pc = "ready" /\ active_tab = "Sessions") =>
          \A id \in get_sessions_data(analytics_data) : str_len(id) >= 12


=============================================================================
